---- MODULE Spec2Model ----
(***************************************************************************)
(* Model of the btca configuration service (apps/cli/src/services/config.ts)*)
(* and of the git helpers it calls (apps/cli/src/lib/utils/git.ts).         *)
(*                                                                          *)
(* Strings that the code takes apart (directories) are sequences of         *)
(* one-character strings; a repo name is one path segment.  Strings the     *)
(* code only compares (names, urls, branches, model ids) are TLA+ strings.  *)
(* Number literals of JSON documents are within the range of a double.      *)
(***************************************************************************)
EXTENDS Integers, Sequences, FiniteSets, TLC

VARIABLES
    config,      \* the service's in-memory document (`let { config } = loadedConfig`)
    configFile,  \* content of ~/.config/btca/btca.json
    userFile,    \* content of the file at the path given to export/import
    dirs,        \* the file system below the repos directories: path -> entry
    remote,      \* the remotes: url -> branch -> number of commits on it
    gitOps,      \* the git subprocesses spawned by the last call, in order
    last,        \* the last event: the call made, its argument and its result
    exported,    \* the document userFile was exported from, if it is an export
    procs,       \* the calls in progress that await a git subprocess: id -> call
    peer,        \* the in-memory document of a second process, if one runs
    storeFile,   \* content of a JSON store's file: history.json or bookmarks.json
    failedWrites \* how many writes of a file have failed so far

vars == <<config, configFile, userFile, dirs, remote, gitOps, last, exported, procs,
          peer, storeFile, failedWrites>>

----------------------------------------------------------------------------
(* Bounds of the model *)

\* addRepo is tried on registries shorter than this
MaxRepos == 4
\* most writes of a file that fail in one run
MaxFailedWrites == 1
\* most commits a remote branch grows to
MaxTip == 2
\* longest path given to collapseHome and expandHome
MaxPathLen == 5
\* largest ahead and behind count of a status that is printed
MaxCount == 4

----------------------------------------------------------------------------
(* Paths *)

\* process.env.HOME / os.homedir()
Home == <<"/", "h">>

\* process.cwd()
Cwd == <<"/", "w">>

StartsWith(s, p) ==
    Len(s) >= Len(p) /\ SubSeq(s, 1, Len(p)) = p

\* String.prototype.slice(n): the string without its first n characters
Slice(s, n) == SubSeq(s, n + 1, Len(s))

RECURSIVE Normalize(_)
\* path.normalize on paths without "." and ".." segments: runs of "/" collapse
Normalize(s) ==
    IF Len(s) < 2 THEN s
    ELSE IF s[1] = "/" /\ s[2] = "/" THEN Normalize(Tail(s))
    ELSE <<s[1]>> \o Normalize(Tail(s))

\* path.join(a, b): the non-empty arguments joined by "/" and normalized
PathJoin(a, b) ==
    IF b = <<>> THEN Normalize(a)
    ELSE IF a = <<>> THEN Normalize(b)
    ELSE Normalize(a \o <<"/">> \o b)

expandHome(filePath) ==
    IF StartsWith(filePath, <<"~", "/">>)
    THEN PathJoin(Home, Slice(filePath, 2))
    ELSE filePath

collapseHome(path) ==
    IF Home # <<>> /\ StartsWith(path, Home)
    THEN <<"~">> \o Slice(path, Len(Home))
    ELSE path

\* path.join(config.reposDirectory, repo.name)
RepoDir(reposDirectory, name) == PathJoin(reposDirectory, <<name>>)

----------------------------------------------------------------------------
(* The configuration document *)

CONFIG_DIRECTORY == <<"~", "/", "c">>

DEFAULT_CONFIG == [
    promptsDirectory |-> CONFIG_DIRECTORY \o <<"/", "p">>,
    reposDirectory   |-> CONFIG_DIRECTORY \o <<"/", "r">>,
    port             |-> 3420,
    maxInstances     |-> 5,
    repos            |-> <<
        [name |-> "svelte", url |-> "https://github.com/sveltejs/svelte.dev",
         branch |-> "main", specialNotes |-> "svelte notes"],
        [name |-> "tailwindcss", url |-> "https://github.com/tailwindlabs/tailwindcss.com",
         branch |-> "main", specialNotes |-> "tailwindcss notes"],
        [name |-> "nextjs", url |-> "https://github.com/vercel/next.js",
         branch |-> "canary"] >>,
    model            |-> "big-pickle",
    provider         |-> "opencode" ]

\* config.repos.find((r) => r.name === name) is defined
HasRepo(cfg, name) == \E i \in 1..Len(cfg.repos) : cfg.repos[i].name = name

\* config.repos.find((r) => r.name === name): the first entry of that name
FindRepo(cfg, name) ==
    cfg.repos[CHOOSE i \in 1..Len(cfg.repos) :
        /\ cfg.repos[i].name = name
        /\ \A j \in 1..(i - 1) : cfg.repos[j].name # name]

\* config.repos.filter((r) => r.name !== name)
RECURSIVE FilterOut(_, _)
FilterOut(repos, name) ==
    IF repos = <<>> THEN <<>>
    ELSE IF Head(repos).name = name THEN FilterOut(Tail(repos), name)
    ELSE <<Head(repos)>> \o FilterOut(Tail(repos), name)

----------------------------------------------------------------------------
(* JSON: a document is a tagged value; an object is a record of tagged    *)
(* values whose DOMAIN is the set of keys present                          *)

JString(s) == <<"string", s>>
JNumber(n) == <<"number", n>>
JArray(a)  == <<"array", a>>
JObject(o) == <<"object", o>>

\* JSON.stringify of a repo that leaves the notes out
StringifyRepoNoNotes(r) ==
    JObject([k \in DOMAIN r \ {"specialNotes"} |-> JString(r[k])])

\* JSON.stringify of a repo: a key whose value is undefined is left out
StringifyRepo(r) ==
    JObject([k \in DOMAIN r |-> JString(r[k])])

RECURSIVE StringifyRepos(_)
StringifyRepos(repos) ==
    IF repos = <<>> THEN <<>>
    ELSE <<StringifyRepo(Head(repos))>> \o StringifyRepos(Tail(repos))

StringifyConfig(cfg) ==
    JObject([
        promptsDirectory |-> JString(cfg.promptsDirectory),
        reposDirectory   |-> JString(cfg.reposDirectory),
        port             |-> JNumber(cfg.port),
        maxInstances     |-> JNumber(cfg.maxInstances),
        repos            |-> JArray(StringifyRepos(cfg.repos)),
        model            |-> JString(cfg.model),
        provider         |-> JString(cfg.provider) ])

\* the content of a file: absent, text that is not JSON, or a JSON document
NoFile == <<"nofile">>
NotJson == <<"notjson">>
JsonFile(j) == <<"json", j>>

IsType(j, t) == j[1] = t

\* Schema.decode(repoSchema): name, url, branch are strings, specialNotes an
\* optional string; other keys are dropped
RepoDecodes(j) ==
    /\ IsType(j, "object")
    /\ \A k \in {"name", "url", "branch"} : k \in DOMAIN j[2] /\ IsType(j[2][k], "string")
    /\ "specialNotes" \in DOMAIN j[2] => IsType(j[2].specialNotes, "string")

DecodeRepo(j) ==
    [k \in (DOMAIN j[2]) \cap {"name", "url", "branch", "specialNotes"} |-> j[2][k][2]]

RECURSIVE DecodeRepos(_)
DecodeRepos(js) ==
    IF js = <<>> THEN <<>>
    ELSE <<DecodeRepo(Head(js))>> \o DecodeRepos(Tail(js))

\* a decoder that does not look into the elements of repos
ConfigDecodesShallow(j) ==
    /\ IsType(j, "object")
    /\ \A k \in {"promptsDirectory", "reposDirectory", "model", "provider"} :
            k \in DOMAIN j[2] /\ IsType(j[2][k], "string")
    /\ \A k \in {"port", "maxInstances"} :
            k \in DOMAIN j[2] /\ IsType(j[2][k], "number")
    /\ "repos" \in DOMAIN j[2] /\ IsType(j[2].repos, "array")

\* Schema.decode(configSchema) succeeds
ConfigDecodes(j) ==
    /\ IsType(j, "object")
    /\ \A k \in {"promptsDirectory", "reposDirectory", "model", "provider"} :
            k \in DOMAIN j[2] /\ IsType(j[2][k], "string")
    /\ \A k \in {"port", "maxInstances"} :
            k \in DOMAIN j[2] /\ IsType(j[2][k], "number")
    /\ "repos" \in DOMAIN j[2] /\ IsType(j[2].repos, "array")
    /\ \A i \in 1..Len(j[2].repos[2]) : RepoDecodes(j[2].repos[2][i])

DecodeConfig(j) == [
    promptsDirectory |-> j[2].promptsDirectory[2],
    reposDirectory   |-> j[2].reposDirectory[2],
    port             |-> j[2].port[2],
    maxInstances     |-> j[2].maxInstances[2],
    repos            |-> DecodeRepos(j[2].repos[2]),
    model            |-> j[2].model[2],
    provider         |-> j[2].provider[2] ]

\* the runtime form of a decoded document: its directories expanded
Expanded(cfg) ==
    [cfg EXCEPT !.promptsDirectory = expandHome(cfg.promptsDirectory),
                !.reposDirectory = expandHome(cfg.reposDirectory)]

----------------------------------------------------------------------------
(* The file system below the repos directories.  dirs maps every path that *)
(* exists to its entry: a regular file, a plain directory, or a git clone.  *)

\* fs.existsSync(dir) alone
directoryExistsAny(fsys, dir) ==
    dir \in DOMAIN fsys

\* fs.existsSync(dir) && fs.statSync(dir).isDirectory()
directoryExists(fsys, dir) ==
    dir \in DOMAIN fsys /\ fsys[dir].kind # "file"

\* fs.remove that empties dir and leaves the directory itself
RemoveTreeKeepsRoot(fsys, dir) ==
    [q \in {x \in DOMAIN fsys : ~StartsWith(x, dir \o <<"/">>)} |->
        IF q = dir THEN [kind |-> "dir"] ELSE fsys[q]]

\* fs.remove(dir, { recursive: true }): dir and everything below it go
RemoveTree(fsys, dir) ==
    [q \in {x \in DOMAIN fsys : x # dir /\ ~StartsWith(x, dir \o <<"/">>)} |-> fsys[q]]

----------------------------------------------------------------------------
(* Events.  last is the last thing that happened: a call on the service,   *)
(* or a step of the environment.  The code fails with                      *)
(* ConfigError({message}); the result of a call is "ok" or the message.    *)

Call(op, name, result) == [op |-> op, name |-> name, result |-> result]

\* what fs.writeFileString does: it writes, it fails with the file untouched,
\* or it fails after truncating the file
WriteOutcomes == {"ok", "denied", "truncated"}

\* the outcomes the next write can have, and the count after it
CanWrite(wr) == wr = "ok" \/ failedWrites < MaxFailedWrites
Counted(wr) == IF wr = "ok" THEN failedWrites ELSE failedWrites + 1

\* the document writeConfig serializes: the directories collapsed
Collapsed(cfg) ==
    [cfg EXCEPT !.promptsDirectory = collapseHome(cfg.promptsDirectory),
                !.reposDirectory = collapseHome(cfg.reposDirectory)]

\* a write that reads the file first and keeps the repos it finds there
WrittenMergesFile(file, cfg, wr) ==
    LET onDisk == IF file[1] = "json" /\ ConfigDecodes(file[2])
                  THEN SelectSeq(DecodeConfig(file[2]).repos,
                                 LAMBDA r : ~HasRepo(cfg, r.name))
                  ELSE <<>>
    IN CASE wr = "ok"        -> JsonFile(StringifyConfig(
                                    Collapsed([cfg EXCEPT !.repos = @ \o onDisk])))
         [] wr = "denied"    -> file
         [] wr = "truncated" -> NotJson

\* fs.writeFileString(path, JSON.stringify(configToWrite, null, 2)) on a file
Written(file, cfg, wr) ==
    CASE wr = "ok"        -> JsonFile(StringifyConfig(Collapsed(cfg)))
      [] wr = "denied"    -> file
      [] wr = "truncated" -> NotJson

\* writeConfig without the collapse of the two directories
writeConfigNoCollapse(cfg, wr) ==
    CASE wr = "ok"        -> JsonFile(StringifyConfig(cfg))
      [] wr = "denied"    -> configFile
      [] wr = "truncated" -> NotJson

\* writeConfig(cfg): the config file afterwards
writeConfig(cfg, wr) == Written(configFile, cfg, wr)

----------------------------------------------------------------------------
(* Repo registry *)

\* addRepo without the lookup of the name
addRepoNoCheck(repo, valid, wr) ==
    /\ gitOps' = <<[cmd |-> "ls-remote", url |-> repo.url]>>
    /\ IF ~valid
       THEN /\ last' = Call("addRepo", repo.name, "Failed to validate repo")
            /\ UNCHANGED <<config, configFile, failedWrites>>
       ELSE /\ config' = [config EXCEPT !.repos = Append(@, repo)]
            /\ configFile' = writeConfig(config', wr)
            /\ failedWrites' = Counted(wr)
            /\ last' = Call("addRepo", repo.name,
                            IF wr = "ok" THEN "ok" ELSE "Failed to write config")

\* addRepo that appends and persists without asking the remote
addRepoUnvalidated(repo, valid, wr) ==
    IF HasRepo(config, repo.name)
    THEN /\ last' = Call("addRepo", repo.name, "already exists")
         /\ gitOps' = <<>>
         /\ UNCHANGED <<config, configFile, failedWrites>>
    ELSE /\ gitOps' = <<>>
         /\ config' = [config EXCEPT !.repos = Append(@, repo)]
         /\ configFile' = writeConfig(config', wr)
         /\ failedWrites' = Counted(wr)
         /\ last' = Call("addRepo", repo.name,
                         IF wr = "ok" THEN "ok" ELSE "Failed to write config")

\* addRepo that validates the url after it has appended and persisted
addRepoValidateLate(repo, valid, wr) ==
    IF HasRepo(config, repo.name)
    THEN /\ last' = Call("addRepo", repo.name, "already exists")
         /\ gitOps' = <<>>
         /\ UNCHANGED <<config, configFile, failedWrites>>
    ELSE /\ gitOps' = <<[cmd |-> "ls-remote", url |-> repo.url]>>
         /\ config' = [config EXCEPT !.repos = Append(@, repo)]
         /\ configFile' = writeConfig(config', wr)
         /\ failedWrites' = Counted(wr)
         /\ last' = Call("addRepo", repo.name,
                         IF wr # "ok" THEN "Failed to write config"
                         ELSE IF ~valid THEN "Failed to validate repo" ELSE "ok")

\* addRepo that puts the new repo in front of the registry
addRepoPrepends(repo, valid, wr) ==
    IF HasRepo(config, repo.name)
    THEN /\ last' = Call("addRepo", repo.name, "already exists")
         /\ gitOps' = <<>>
         /\ UNCHANGED <<config, configFile, failedWrites>>
    ELSE /\ gitOps' = <<[cmd |-> "ls-remote", url |-> repo.url]>>
         /\ IF ~valid
            THEN /\ last' = Call("addRepo", repo.name, "Failed to validate repo")
                 /\ UNCHANGED <<config, configFile, failedWrites>>
            ELSE /\ config' = [config EXCEPT !.repos = <<repo>> \o @]
                 /\ configFile' = writeConfig(config', wr)
                 /\ failedWrites' = Counted(wr)
                 /\ last' = Call("addRepo", repo.name,
                                 IF wr = "ok" THEN "ok" ELSE "Failed to write config")

\* addRepo(repo): valid says whether git ls-remote exits 0, wr what the write does
addRepo(repo, valid, wr) ==
    IF HasRepo(config, repo.name)
    THEN /\ last' = Call("addRepo", repo.name, "already exists")
         /\ gitOps' = <<>>
         /\ UNCHANGED <<config, configFile, failedWrites>>
    ELSE /\ gitOps' = <<[cmd |-> "ls-remote", url |-> repo.url]>>
         /\ IF ~valid
            THEN /\ last' = Call("addRepo", repo.name, "Failed to validate repo")
                 /\ UNCHANGED <<config, configFile, failedWrites>>
            ELSE /\ config' = [config EXCEPT !.repos = Append(@, repo)]
                 /\ configFile' = writeConfig(config', wr)
                 /\ failedWrites' = Counted(wr)
                 /\ last' = Call("addRepo", repo.name,
                                 IF wr = "ok" THEN "ok" ELSE "Failed to write config")

AddRepo(repo, valid, wr) ==
    /\ Len(config.repos) < MaxRepos
    /\ CanWrite(wr)
    /\ addRepo(repo, valid, wr)
    /\ UNCHANGED <<userFile, exported, procs, dirs, remote, peer, storeFile>>

\* removeRepo that drops the entry and persists before it deletes the files
RemoveRepoEntryFirst(name, deleteFiles, rm, wr) ==
    /\ CanWrite(wr)
    /\ gitOps' = <<>>
    /\ UNCHANGED <<userFile, exported, procs, remote, peer, storeFile>>
    /\ IF ~HasRepo(config, name)
       THEN /\ last' = Call("removeRepo", name, "not found")
            /\ UNCHANGED <<config, configFile, dirs, failedWrites>>
       ELSE LET repo == FindRepo(config, name)
                repoDir == RepoDir(config.reposDirectory, repo.name)
                removes == deleteFiles /\ directoryExists(dirs, repoDir)
            IN /\ config' = [config EXCEPT !.repos = FilterOut(@, name)]
               /\ configFile' = writeConfig(config', wr)
               /\ failedWrites' = Counted(wr)
               /\ dirs' = IF removes /\ rm /\ wr = "ok" THEN RemoveTree(dirs, repoDir) ELSE dirs
               /\ last' = Call("removeRepo", name,
                               IF wr # "ok" THEN "Failed to write config"
                               ELSE IF removes /\ ~rm THEN "Failed to remove directory"
                               ELSE "ok")

\* removeRepo that deletes the files whether or not it is asked to
RemoveRepoAlwaysDeletes(name, deleteFiles, rm, wr) ==
    /\ CanWrite(wr)
    /\ gitOps' = <<>>
    /\ UNCHANGED <<userFile, exported, procs, remote, peer, storeFile>>
    /\ IF ~HasRepo(config, name)
       THEN /\ last' = Call("removeRepo", name, "not found")
            /\ UNCHANGED <<config, configFile, dirs, failedWrites>>
       ELSE LET repo == FindRepo(config, name)
                repoDir == RepoDir(config.reposDirectory, repo.name)
                removes == directoryExists(dirs, repoDir)
            IN IF removes /\ ~rm
               THEN /\ last' = Call("removeRepo", name, "Failed to remove directory")
                    /\ UNCHANGED <<config, configFile, dirs, failedWrites>>
               ELSE /\ dirs' = IF removes THEN RemoveTree(dirs, repoDir) ELSE dirs
                    /\ config' = [config EXCEPT !.repos = FilterOut(@, name)]
                    /\ configFile' = writeConfig(config', wr)
                    /\ failedWrites' = Counted(wr)
                    /\ last' = Call("removeRepo", name,
                                    IF wr = "ok" THEN "ok" ELSE "Failed to write config")

RemoveRepo(name, deleteFiles, rm, wr) ==
    /\ CanWrite(wr)
    /\ gitOps' = <<>>
    /\ UNCHANGED <<userFile, exported, procs, remote, peer, storeFile>>
    /\ IF ~HasRepo(config, name)
       THEN /\ last' = Call("removeRepo", name, "not found")
            /\ UNCHANGED <<config, configFile, dirs, failedWrites>>
       ELSE LET repo == FindRepo(config, name)
                repoDir == RepoDir(config.reposDirectory, repo.name)
                removes == deleteFiles /\ directoryExists(dirs, repoDir)
            IN IF removes /\ ~rm
               THEN /\ last' = Call("removeRepo", name, "Failed to remove directory")
                    /\ UNCHANGED <<config, configFile, dirs, failedWrites>>
               ELSE /\ dirs' = IF removes THEN RemoveTree(dirs, repoDir) ELSE dirs
                    /\ config' = [config EXCEPT !.repos = FilterOut(@, name)]
                    /\ configFile' = writeConfig(config', wr)
                    /\ failedWrites' = Counted(wr)
                    /\ last' = Call("removeRepo", name,
                                    IF wr = "ok" THEN "ok" ELSE "Failed to write config")

\* updateModel that builds the new document from the defaults, not from config
UpdateModelFromDefaults(provider, model, wr) ==
    /\ CanWrite(wr)
    /\ config' = [Expanded(DEFAULT_CONFIG) EXCEPT !.provider = provider, !.model = model]
    /\ configFile' = writeConfig(config', wr)
    /\ failedWrites' = Counted(wr)
    /\ last' = Call("updateModel", "", IF wr = "ok" THEN "ok" ELSE "Failed to write config")
    /\ gitOps' = <<>>
    /\ UNCHANGED <<userFile, exported, procs, dirs, remote, peer, storeFile>>

UpdateModel(provider, model, wr) ==
    /\ CanWrite(wr)
    /\ config' = [config EXCEPT !.provider = provider, !.model = model]
    /\ configFile' = writeConfig(config', wr)
    /\ failedWrites' = Counted(wr)
    /\ last' = Call("updateModel", "", IF wr = "ok" THEN "ok" ELSE "Failed to write config")
    /\ gitOps' = <<>>
    /\ UNCHANGED <<userFile, exported, procs, dirs, remote, peer, storeFile>>

\* resetConfig that keeps the registered repos
ResetConfigKeepsRepos(wr) ==
    /\ CanWrite(wr)
    /\ config' = [Expanded(DEFAULT_CONFIG) EXCEPT !.repos = config.repos]
    /\ configFile' = writeConfig(config', wr)
    /\ failedWrites' = Counted(wr)
    /\ last' = Call("resetConfig", "", IF wr = "ok" THEN "ok" ELSE "Failed to write config")
    /\ gitOps' = <<>>
    /\ UNCHANGED <<userFile, exported, procs, dirs, remote, peer, storeFile>>

ResetConfig(wr) ==
    /\ CanWrite(wr)
    /\ config' = Expanded(DEFAULT_CONFIG)
    /\ configFile' = writeConfig(config', wr)
    /\ failedWrites' = Counted(wr)
    /\ last' = Call("resetConfig", "", IF wr = "ok" THEN "ok" ELSE "Failed to write config")
    /\ gitOps' = <<>>
    /\ UNCHANGED <<userFile, exported, procs, dirs, remote, peer, storeFile>>

\* userFile is not an export
NoExport == <<>>

ExportConfig(wr) ==
    /\ CanWrite(wr)
    /\ userFile' = Written(userFile, config, wr)
    /\ exported' = IF wr = "ok" THEN config ELSE IF wr = "denied" THEN exported ELSE NoExport
    /\ UNCHANGED procs
    /\ failedWrites' = Counted(wr)
    /\ last' = Call("exportConfig", "", IF wr = "ok" THEN "ok" ELSE "Failed to export config")
    /\ gitOps' = <<>>
    /\ UNCHANGED <<config, configFile, dirs, remote, peer, storeFile>>

\* importConfig that adds the imported repos to the ones it has
ImportConfigMerges(wr) ==
    /\ CanWrite(wr)
    /\ gitOps' = <<>>
    /\ UNCHANGED <<userFile, exported, procs, dirs, remote, peer, storeFile>>
    /\ IF userFile = NoFile
       THEN /\ last' = Call("importConfig", "", "Import file not found")
            /\ UNCHANGED <<config, configFile, failedWrites>>
       ELSE IF userFile = NotJson
       THEN /\ last' = Call("importConfig", "", "Import file is not valid JSON")
            /\ UNCHANGED <<config, configFile, failedWrites>>
       ELSE IF ~ConfigDecodes(userFile[2])
       THEN /\ last' = Call("importConfig", "", "Import file does not match config schema")
            /\ UNCHANGED <<config, configFile, failedWrites>>
       ELSE /\ config' = [Expanded(DecodeConfig(userFile[2]))
                             EXCEPT !.repos = config.repos \o @]
            /\ configFile' = writeConfig(config', wr)
            /\ failedWrites' = Counted(wr)
            /\ last' = Call("importConfig", "",
                            IF wr = "ok" THEN "ok" ELSE "Failed to write config")

ImportConfig(wr) ==
    /\ CanWrite(wr)
    /\ gitOps' = <<>>
    /\ UNCHANGED <<userFile, exported, procs, dirs, remote, peer, storeFile>>
    /\ IF userFile = NoFile
       THEN /\ last' = Call("importConfig", "", "Import file not found")
            /\ UNCHANGED <<config, configFile, failedWrites>>
       ELSE IF userFile = NotJson
       THEN /\ last' = Call("importConfig", "", "Import file is not valid JSON")
            /\ UNCHANGED <<config, configFile, failedWrites>>
       ELSE IF ~ConfigDecodes(userFile[2])
       THEN /\ last' = Call("importConfig", "", "Import file does not match config schema")
            /\ UNCHANGED <<config, configFile, failedWrites>>
       ELSE /\ config' = Expanded(DecodeConfig(userFile[2]))
            /\ configFile' = writeConfig(config', wr)
            /\ failedWrites' = Counted(wr)
            /\ last' = Call("importConfig", "",
                            IF wr = "ok" THEN "ok" ELSE "Failed to write config")

\* the user writes, or deletes, the file an import will read
UserWritesFile(content) ==
    /\ userFile' = content
    /\ exported' = NoExport
    /\ UNCHANGED procs
    /\ last' = Call("user writes file", "", "ok")
    /\ gitOps' = <<>>
    /\ UNCHANGED <<config, configFile, dirs, remote, peer, storeFile, failedWrites>>

----------------------------------------------------------------------------
(* Git, as the subprocesses the code spawns see it.  A remote has the      *)
(* branches main and dev; remote[url][b] is the number of commits made on  *)
(* branch b (0: no such branch); dev forks from the first commit of main.  *)
(* A clone is [kind, origin, branch, head, refs, modified, untracked]:     *)
(* head is the set of commits reachable from HEAD, refs[b] the set         *)
(* reachable from origin/b ({} when there is no such ref).                 *)

RemoteUrls == {"u1", "u2"}
Branches == {"main", "dev"}

History(url, b, n) ==
    IF n = 0 THEN {}
    ELSE IF b = "main" THEN {<<url, "main", i>> : i \in 1..n}
    ELSE {<<url, "main", 1>>} \cup {<<url, b, i>> : i \in 1..n}

RemoteBranch(url, b) ==
    IF url \in RemoteUrls /\ b \in Branches THEN History(url, b, remote[url][b]) ELSE {}

IsClone(fsys, dir) == dir \in DOMAIN fsys /\ fsys[dir].kind = "clone"

Put(fsys, dir, entry) ==
    [q \in DOMAIN fsys \cup {dir} |-> IF q = dir THEN entry ELSE fsys[q]]

\* git merge of the fetched commits into HEAD: nothing to do, a fast-forward,
\* or a merge commit on top of both
Merged(head, fetched) ==
    IF fetched \subseteq head THEN head
    ELSE IF head \subseteq fetched THEN fetched
    ELSE head \cup fetched \cup {<<"merge", "merge", Cardinality(head \cup fetched)>>}

\* git clone --branch <branch> <url> <repoDir> exits 0
CloneSucceeds(fsys, repoDir, url, branch, net) ==
    net /\ repoDir \notin DOMAIN fsys /\ RemoteBranch(url, branch) # {}

\* ... and what it leaves at repoDir
ClonedEntry(url, branch) ==
    [kind |-> "clone", origin |-> url, branch |-> branch,
     head |-> RemoteBranch(url, branch),
     refs |-> [b \in Branches |-> RemoteBranch(url, b)],
     modified |-> FALSE, untracked |-> FALSE]

\* git pull origin <branch> in repoDir exits 0
PullSucceeds(fsys, repoDir, branch, net) ==
    net /\ IsClone(fsys, repoDir) /\ RemoteBranch(fsys[repoDir].origin, branch) # {}

\* a pull that fetches and does not merge
PulledEntryNoMerge(c, branch) ==
    [c EXCEPT !.refs[branch] = RemoteBranch(c.origin, branch)]

\* ... and what it leaves at repoDir: origin/<branch> fetched and merged into HEAD
PulledEntry(c, branch) ==
    [c EXCEPT !.refs[branch] = RemoteBranch(c.origin, branch),
              !.head = Merged(@, RemoteBranch(c.origin, branch))]

\* git fetch origin in repoDir exits 0
FetchSucceeds(fsys, repoDir, net) == net /\ IsClone(fsys, repoDir)

\* ... and what it leaves: every origin/<b> that the remote has is updated
FetchedEntry(c) ==
    [c EXCEPT !.refs = [b \in Branches |->
        IF RemoteBranch(c.origin, b) # {} THEN RemoteBranch(c.origin, b) ELSE c.refs[b]]]

----------------------------------------------------------------------------
(* Local clone manager *)

\* the descriptor cloneOrUpdateOneRepoLocally returns for "local"
LocalRepo == [name |-> "local", url |-> "local", branch |-> "local"]

\* cloneOrUpdateOneRepoLocally without the early return for "local"
cloneOrUpdateAlsoLocal(repoName, net) ==
    IF ~HasRepo(config, repoName)
    THEN [result |-> "not found", repo |-> LocalRepo, ops |-> <<>>, fs |-> dirs]
    ELSE LET repo == FindRepo(config, repoName)
             repoDir == RepoDir(config.reposDirectory, repo.name)
             branch == repo.branch
         IN IF directoryExists(dirs, repoDir)
            THEN LET ok == PullSucceeds(dirs, repoDir, branch, net)
                 IN [result |-> IF ok THEN "ok" ELSE "Failed to pull repo",
                     repo |-> repo,
                     ops |-> <<[cmd |-> "pull", dir |-> repoDir, branch |-> branch]>>,
                     fs |-> IF ok THEN Put(dirs, repoDir, PulledEntry(dirs[repoDir], branch))
                            ELSE dirs]
            ELSE LET ok == CloneSucceeds(dirs, repoDir, repo.url, branch, net)
                 IN [result |-> IF ok THEN "ok" ELSE "Failed to clone repo",
                     repo |-> repo,
                     ops |-> <<[cmd |-> "clone", dir |-> repoDir, url |-> repo.url,
                                branch |-> branch]>>,
                     fs |-> IF ok THEN Put(dirs, repoDir, ClonedEntry(repo.url, branch))
                            ELSE dirs]

\* cloneOrUpdateOneRepoLocally that runs a failed clone or pull a second time
cloneOrUpdateRetries(repoName, net) ==
    IF repoName = "local"
    THEN [result |-> "ok", repo |-> LocalRepo, ops |-> <<>>, fs |-> dirs]
    ELSE IF ~HasRepo(config, repoName)
    THEN [result |-> "not found", repo |-> LocalRepo, ops |-> <<>>, fs |-> dirs]
    ELSE LET repo == FindRepo(config, repoName)
             repoDir == RepoDir(config.reposDirectory, repo.name)
             branch == repo.branch
         IN IF directoryExists(dirs, repoDir)
            THEN LET ok == PullSucceeds(dirs, repoDir, branch, net)
                     pull == [cmd |-> "pull", dir |-> repoDir, branch |-> branch]
                 IN [result |-> IF ok THEN "ok" ELSE "Failed to pull repo",
                     repo |-> repo,
                     ops |-> IF ok THEN <<pull>> ELSE <<pull, pull>>,
                     fs |-> IF ok THEN Put(dirs, repoDir, PulledEntry(dirs[repoDir], branch))
                            ELSE dirs]
            ELSE LET ok == CloneSucceeds(dirs, repoDir, repo.url, branch, net)
                     clone == [cmd |-> "clone", dir |-> repoDir, url |-> repo.url,
                               branch |-> branch]
                 IN [result |-> IF ok THEN "ok" ELSE "Failed to clone repo",
                     repo |-> repo,
                     ops |-> IF ok THEN <<clone>> ELSE <<clone, clone>>,
                     fs |-> IF ok THEN Put(dirs, repoDir, ClonedEntry(repo.url, branch))
                            ELSE dirs]

\* cloneOrUpdateOneRepoLocally(repoName): the call's result, the git
\* subprocesses it spawns and the file system it leaves
cloneOrUpdateOneRepoLocally(repoName, net) ==
    IF repoName = "local"
    THEN [result |-> "ok", repo |-> LocalRepo, ops |-> <<>>, fs |-> dirs]
    ELSE IF ~HasRepo(config, repoName)
    THEN [result |-> "not found", repo |-> LocalRepo, ops |-> <<>>, fs |-> dirs]
    ELSE LET repo == FindRepo(config, repoName)
             repoDir == RepoDir(config.reposDirectory, repo.name)
             branch == repo.branch
         IN IF directoryExists(dirs, repoDir)
            THEN LET ok == PullSucceeds(dirs, repoDir, branch, net)
                 IN [result |-> IF ok THEN "ok" ELSE "Failed to pull repo",
                     repo |-> repo,
                     ops |-> <<[cmd |-> "pull", dir |-> repoDir, branch |-> branch]>>,
                     fs |-> IF ok THEN Put(dirs, repoDir, PulledEntry(dirs[repoDir], branch))
                            ELSE dirs]
            ELSE LET ok == CloneSucceeds(dirs, repoDir, repo.url, branch, net)
                 IN [result |-> IF ok THEN "ok" ELSE "Failed to clone repo",
                     repo |-> repo,
                     ops |-> <<[cmd |-> "clone", dir |-> repoDir, url |-> repo.url,
                                branch |-> branch]>>,
                     fs |-> IF ok THEN Put(dirs, repoDir, ClonedEntry(repo.url, branch))
                            ELSE dirs]

EnsureLocal(repoName, net) ==
    LET r == cloneOrUpdateOneRepoLocally(repoName, net)
    IN /\ dirs' = r.fs
       /\ gitOps' = r.ops
       /\ last' = [op |-> "ensureLocal", name |-> repoName, result |-> r.result,
                   ret |-> r.repo]
       /\ UNCHANGED <<config, configFile, userFile, exported, procs, remote, peer, storeFile, failedWrites>>

\* getRepoPath that hands the path out whether or not the clone or pull succeeded
GetRepoPathIgnoresFailure(repoName, net) ==
    IF repoName = "local"
    THEN /\ last' = [op |-> "getRepoPath", name |-> repoName, result |-> "ok", ret |-> Cwd]
         /\ gitOps' = <<>>
         /\ UNCHANGED <<config, configFile, userFile, exported, procs, dirs, remote, peer, storeFile,
                        failedWrites>>
    ELSE LET r == cloneOrUpdateOneRepoLocally(repoName, net)
         IN /\ dirs' = r.fs
            /\ gitOps' = r.ops
            /\ last' = [op |-> "getRepoPath", name |-> repoName,
                        result |-> IF r.result = "not found" THEN r.result ELSE "ok",
                        ret |-> IF r.result # "not found"
                                THEN RepoDir(config.reposDirectory, r.repo.name)
                                ELSE <<>>]
            /\ UNCHANGED <<config, configFile, userFile, exported, procs, remote, peer, storeFile,
                           failedWrites>>

GetRepoPath(repoName, net) ==
    IF repoName = "local"
    THEN /\ last' = [op |-> "getRepoPath", name |-> repoName, result |-> "ok", ret |-> Cwd]
         /\ gitOps' = <<>>
         /\ UNCHANGED <<config, configFile, userFile, exported, procs, dirs, remote, peer, storeFile, failedWrites>>
    ELSE LET r == cloneOrUpdateOneRepoLocally(repoName, net)
         IN /\ dirs' = r.fs
            /\ gitOps' = r.ops
            /\ last' = [op |-> "getRepoPath", name |-> repoName, result |-> r.result,
                        ret |-> IF r.result = "ok"
                                THEN RepoDir(config.reposDirectory, r.repo.name)
                                ELSE <<>>]
            /\ UNCHANGED <<config, configFile, userFile, exported, procs, remote, peer, storeFile, failedWrites>>

----------------------------------------------------------------------------
(* Cleanup manager *)

\* cleanRepoInternal that reports success and removes nothing
cleanRepoInternalKeepsFiles(fsys, repoName, rm) ==
    IF repoName = "local"
    THEN [result |-> "ok", fs |-> fsys]
    ELSE IF ~HasRepo(config, repoName)
    THEN [result |-> "not found", fs |-> fsys]
    ELSE [result |-> "ok", fs |-> fsys]

\* cleanRepoInternal(repoName); rm says whether fs.remove succeeds
cleanRepoInternal(fsys, repoName, rm) ==
    IF repoName = "local"
    THEN [result |-> "ok", fs |-> fsys]
    ELSE IF ~HasRepo(config, repoName)
    THEN [result |-> "not found", fs |-> fsys]
    ELSE LET repo == FindRepo(config, repoName)
             repoDir == RepoDir(config.reposDirectory, repo.name)
         IN IF directoryExists(fsys, repoDir)
            THEN IF rm THEN [result |-> "ok", fs |-> RemoveTree(fsys, repoDir)]
                 ELSE [result |-> "Failed to remove directory", fs |-> fsys]
            ELSE [result |-> "ok", fs |-> fsys]

CleanRepo(repoName, rm) ==
    LET r == cleanRepoInternal(dirs, repoName, rm)
    IN /\ dirs' = r.fs
       /\ last' = [op |-> "cleanRepo", name |-> repoName, result |-> r.result,
                   removed |-> DOMAIN dirs \ DOMAIN r.fs]
       /\ gitOps' = <<>>
       /\ UNCHANGED <<config, configFile, userFile, exported, procs, remote, peer, storeFile, failedWrites>>

\* for (const repo of repos) yield* cleanRepoInternal(repo.name), from the i-th
\* repo on; the removal for the failAt-th repo, if one is made, fails
RECURSIVE CleanLoop(_, _, _)
CleanLoop(fsys, i, failAt) ==
    IF i > Len(config.repos) THEN [result |-> "ok", fs |-> fsys]
    ELSE LET r == cleanRepoInternal(fsys, config.repos[i].name, i # failAt)
         IN IF r.result # "ok" THEN r ELSE CleanLoop(r.fs, i + 1, failAt)

CleanAllRepos(failAt) ==
    LET r == CleanLoop(dirs, 1, failAt)
    IN /\ dirs' = r.fs
       /\ last' = [op |-> "cleanAllRepos", name |-> "", result |-> r.result,
                   removed |-> DOMAIN dirs \ DOMAIN r.fs]
       /\ gitOps' = <<>>
       /\ UNCHANGED <<config, configFile, userFile, exported, procs, remote, peer, storeFile, failedWrites>>

----------------------------------------------------------------------------
(* Remote status evaluator *)

\* stdout of git status -uno --porcelain: one line per changed tracked file
GitStatusUno(c) ==
    IF c.modified THEN <<" M tracked">> ELSE <<>>

\* git rev-list --left-right --count HEAD...origin/<branch>: exit code and the
\* two counts on stdout, left (HEAD only) then right (origin/<branch> only)
GitRevList(c, branch) ==
    IF branch \in Branches /\ c.refs[branch] # {}
    THEN [exitCode |-> 0,
          parts |-> <<Cardinality(c.head \ c.refs[branch]),
                      Cardinality(c.refs[branch] \ c.head)>>]
    ELSE [exitCode |-> 128, parts |-> <<>>]

\* getRepoStatus that reads the two counts the other way round
getRepoStatusSwapped(c, branch) ==
    LET rev == GitRevList(c, branch)
        counted == rev.exitCode = 0 /\ Len(rev.parts) >= 2
    IN [dirty |-> Len(GitStatusUno(c)) > 0,
        ahead |-> IF counted THEN rev.parts[2] ELSE 0,
        behind |-> IF counted THEN rev.parts[1] ELSE 0]

\* getRepoStatus({repoDir, branch}) of git.ts on the clone c at repoDir
getRepoStatus(c, branch) ==
    LET rev == GitRevList(c, branch)
        counted == rev.exitCode = 0 /\ Len(rev.parts) >= 2
    IN [dirty |-> Len(GitStatusUno(c)) > 0,
        ahead |-> IF counted THEN rev.parts[1] ELSE 0,
        behind |-> IF counted THEN rev.parts[2] ELSE 0]

Status(exists, path, st) ==
    [exists |-> exists, path |-> path,
     dirty |-> st.dirty, ahead |-> st.ahead, behind |-> st.behind]

NoStatus == [dirty |-> FALSE, ahead |-> 0, behind |-> 0]

\* getRepoStatus(repoName) of the config service that fetches before it
\* looks for the directory
GetStatusFetchesFirst(repoName, net) ==
    /\ UNCHANGED <<config, configFile, userFile, exported, procs, remote, peer, storeFile, failedWrites>>
    /\ IF repoName = "local"
       THEN /\ last' = [op |-> "getStatus", name |-> repoName, result |-> "ok",
                        ret |-> Status(TRUE, Cwd, NoStatus)]
            /\ gitOps' = <<>>
            /\ UNCHANGED dirs
       ELSE IF ~HasRepo(config, repoName)
       THEN /\ last' = [op |-> "getStatus", name |-> repoName, result |-> "not found",
                        ret |-> Status(FALSE, <<>>, NoStatus)]
            /\ gitOps' = <<>>
            /\ UNCHANGED dirs
       ELSE LET repo == FindRepo(config, repoName)
                repoDir == RepoDir(config.reposDirectory, repo.name)
            IN IF ~FetchSucceeds(dirs, repoDir, net)
               THEN /\ last' = [op |-> "getStatus", name |-> repoName,
                                result |-> "Failed to fetch repo",
                                ret |-> Status(FALSE, <<>>, NoStatus)]
                    /\ gitOps' = <<[cmd |-> "fetch", dir |-> repoDir]>>
                    /\ UNCHANGED dirs
               ELSE /\ dirs' = Put(dirs, repoDir, FetchedEntry(dirs[repoDir]))
                    /\ gitOps' = <<[cmd |-> "fetch", dir |-> repoDir],
                                   [cmd |-> "status", dir |-> repoDir],
                                   [cmd |-> "rev-list", dir |-> repoDir,
                                    branch |-> repo.branch]>>
                    /\ last' = [op |-> "getStatus", name |-> repoName, result |-> "ok",
                                ret |-> Status(TRUE, repoDir,
                                               getRepoStatus(dirs'[repoDir], repo.branch))]

\* getRepoStatus(repoName) of the config service
GetStatus(repoName, net) ==
    /\ UNCHANGED <<config, configFile, userFile, exported, procs, remote, peer, storeFile, failedWrites>>
    /\ IF repoName = "local"
       THEN /\ last' = [op |-> "getStatus", name |-> repoName, result |-> "ok",
                        ret |-> Status(TRUE, Cwd, NoStatus)]
            /\ gitOps' = <<>>
            /\ UNCHANGED dirs
       ELSE IF ~HasRepo(config, repoName)
       THEN /\ last' = [op |-> "getStatus", name |-> repoName, result |-> "not found",
                        ret |-> Status(FALSE, <<>>, NoStatus)]
            /\ gitOps' = <<>>
            /\ UNCHANGED dirs
       ELSE LET repo == FindRepo(config, repoName)
                repoDir == RepoDir(config.reposDirectory, repo.name)
            IN IF ~directoryExists(dirs, repoDir)
               THEN /\ last' = [op |-> "getStatus", name |-> repoName, result |-> "ok",
                                ret |-> Status(FALSE, repoDir, NoStatus)]
                    /\ gitOps' = <<>>
                    /\ UNCHANGED dirs
               ELSE IF ~FetchSucceeds(dirs, repoDir, net)
               THEN /\ last' = [op |-> "getStatus", name |-> repoName,
                                result |-> "Failed to fetch repo",
                                ret |-> Status(FALSE, <<>>, NoStatus)]
                    /\ gitOps' = <<[cmd |-> "fetch", dir |-> repoDir]>>
                    /\ UNCHANGED dirs
               ELSE /\ dirs' = Put(dirs, repoDir, FetchedEntry(dirs[repoDir]))
                    /\ gitOps' = <<[cmd |-> "fetch", dir |-> repoDir],
                                   [cmd |-> "status", dir |-> repoDir],
                                   [cmd |-> "rev-list", dir |-> repoDir,
                                    branch |-> repo.branch]>>
                    /\ last' = [op |-> "getStatus", name |-> repoName, result |-> "ok",
                                ret |-> Status(TRUE, repoDir,
                                               getRepoStatus(dirs'[repoDir], repo.branch))]

----------------------------------------------------------------------------
(* The environment: the remotes grow, the user edits a clone's working tree *)

RemoteCommit(url, b) ==
    /\ remote[url][b] > 0
    /\ remote[url][b] < MaxTip
    /\ remote' = [remote EXCEPT ![url][b] = @ + 1]
    /\ last' = Call("remote commit", url, "ok")
    /\ gitOps' = <<>>
    /\ UNCHANGED <<config, configFile, userFile, exported, procs, peer, storeFile, dirs, failedWrites>>

UserEditsTracked(dir) ==
    /\ IsClone(dirs, dir)
    /\ ~dirs[dir].modified
    /\ dirs' = [dirs EXCEPT ![dir].modified = TRUE]
    /\ last' = Call("user edits tracked file", "", "ok")
    /\ gitOps' = <<>>
    /\ UNCHANGED <<config, configFile, userFile, exported, procs, remote, peer, storeFile, failedWrites>>

UserAddsUntracked(dir) ==
    /\ IsClone(dirs, dir)
    /\ ~dirs[dir].untracked
    /\ dirs' = [dirs EXCEPT ![dir].untracked = TRUE]
    /\ last' = Call("user adds untracked file", "", "ok")
    /\ gitOps' = <<>>
    /\ UNCHANGED <<config, configFile, userFile, exported, procs, remote, peer, storeFile, failedWrites>>

----------------------------------------------------------------------------
(* Calls in progress.  A call that needs repos runs                        *)
(* cloneOrUpdateOneRepoLocally for each of them; while it awaits the git   *)
(* subprocess it has spawned (await proc.exited) the process serves other  *)
(* calls.  A git subprocess takes its effect on the file system when it    *)
(* exits.  A call is [pc, call, names, todo, ops, git]: the names it was   *)
(* given, those it has not finished, the subprocesses it has spawned so    *)
(* far and those of them that run.                                         *)

\* the calls that can be in progress at once
MaxRequests == 2

Requests == 1..MaxRequests

Idle == [pc |-> "idle", call |-> "", names |-> <<>>, todo |-> <<>>, ops |-> <<>>, git |-> {}]

\* repos.map((repo) => repo.name), the order of `for (const repo of repos)`
RECURSIVE RepoNames(_)
RepoNames(repos) ==
    IF repos = <<>> THEN <<>>
    ELSE <<Head(repos).name>> \o RepoNames(Tail(repos))

\* a call starts on a fiber that runs no other call
Begin(p, call, names) ==
    /\ procs[p].pc = "idle"
    /\ procs' = [procs EXCEPT ![p] = [pc |-> "run", call |-> call, names |-> names,
                                      todo |-> names, ops |-> <<>>, git |-> {}]]
    /\ last' = Call(call, "", "begun")
    /\ gitOps' = <<>>
    /\ UNCHANGED <<config, configFile, userFile, exported, dirs, remote, peer, storeFile, failedWrites>>

\* askQuestion({tech}): yield* config.cloneOrUpdateOneRepoLocally(tech) ...
AskQuestion(p, tech) == Begin(p, "askQuestion", <<tech>>)

\* updateAllRepos(): for (const repo of repos) yield* cloneOrUpdateOneRepoLocally(repo.name)
UpdateAllRepos(p) == Begin(p, "updateAllRepos", RepoNames(config.repos))

\* the call returns or fails: its fiber is free again
Finished(p, result) ==
    /\ procs' = [procs EXCEPT ![p] = Idle]
    /\ last' = [op |-> procs[p].call, name |-> "", result |-> result,
                names |-> procs[p].names, todo |-> procs[p].todo]
    /\ gitOps' = procs[p].ops

\* a call that waits while another call's git subprocess runs in the directory
RunToSpawnLocked(p) ==
    /\ procs[p].pc = "run"
    /\ \A q \in Requests \ {p} : \A o \in procs[q].git :
            procs[p].todo = <<>> \/ o.dir # RepoDir(config.reposDirectory, Head(procs[p].todo))
    /\ UNCHANGED <<config, configFile, userFile, exported, dirs, remote, peer, storeFile, failedWrites>>
    /\ IF procs[p].todo = <<>>
       THEN Finished(p, "ok")
       ELSE LET r == cloneOrUpdateOneRepoLocally(Head(procs[p].todo), TRUE)
            IN IF r.ops # <<>>
               THEN /\ procs' = [procs EXCEPT ![p].pc = "git",
                                              ![p].git = {r.ops[1]},
                                              ![p].ops = Append(@, r.ops[1])]
                    /\ last' = Call(procs[p].call, Head(procs[p].todo), "spawned")
                    /\ gitOps' = r.ops
               ELSE IF r.result = "ok"
               THEN /\ procs' = [procs EXCEPT ![p].todo = Tail(@)]
                    /\ last' = Call(procs[p].call, Head(procs[p].todo), "skipped")
                    /\ gitOps' = <<>>
               ELSE Finished(p, r.result)

\* the call runs up to its next await of a git subprocess, or to its end:
\* cloneOrUpdateOneRepoLocally(Head(todo)) up to Bun.spawn
RunToSpawn(p) ==
    /\ procs[p].pc = "run"
    /\ UNCHANGED <<config, configFile, userFile, exported, dirs, remote, peer, storeFile, failedWrites>>
    /\ IF procs[p].todo = <<>>
       THEN Finished(p, "ok")
       ELSE LET r == cloneOrUpdateOneRepoLocally(Head(procs[p].todo), TRUE)
            IN IF r.ops # <<>>
               THEN /\ procs' = [procs EXCEPT ![p].pc = "git",
                                              ![p].git = {r.ops[1]},
                                              ![p].ops = Append(@, r.ops[1])]
                    /\ last' = Call(procs[p].call, Head(procs[p].todo), "spawned")
                    /\ gitOps' = r.ops
               ELSE IF r.result = "ok"
               THEN /\ procs' = [procs EXCEPT ![p].todo = Tail(@)]
                    /\ last' = Call(procs[p].call, Head(procs[p].todo), "skipped")
                    /\ gitOps' = <<>>
               ELSE Finished(p, r.result)

\* a git subprocess whose failure does not stop the call
GitExitsKeepsGoing(p, net) ==
    /\ procs[p].pc = "git"
    /\ UNCHANGED <<config, configFile, userFile, exported, remote, peer, storeFile, failedWrites>>
    /\ LET op == CHOOSE o \in procs[p].git : TRUE
           ok == IF op.cmd = "clone"
                 THEN CloneSucceeds(dirs, op.dir, op.url, op.branch, net)
                 ELSE PullSucceeds(dirs, op.dir, op.branch, net)
       IN /\ dirs' = IF ~ok THEN dirs
                     ELSE IF op.cmd = "clone"
                     THEN Put(dirs, op.dir, ClonedEntry(op.url, op.branch))
                     ELSE Put(dirs, op.dir, PulledEntry(dirs[op.dir], op.branch))
          /\ procs' = [procs EXCEPT ![p].pc = "run", ![p].git = {}, ![p].todo = Tail(@)]
          /\ last' = Call(procs[p].call, Head(procs[p].todo), "git exited")
          /\ gitOps' = <<>>

\* a call that tries the git subprocess again for as long as it fails
GitExitsRetries(p, net) ==
    /\ procs[p].pc = "git"
    /\ UNCHANGED <<config, configFile, userFile, exported, remote, peer, storeFile, failedWrites>>
    /\ LET op == CHOOSE o \in procs[p].git : TRUE
           ok == IF op.cmd = "clone"
                 THEN CloneSucceeds(dirs, op.dir, op.url, op.branch, net)
                 ELSE PullSucceeds(dirs, op.dir, op.branch, net)
       IN /\ dirs' = IF ~ok THEN dirs
                     ELSE IF op.cmd = "clone"
                     THEN Put(dirs, op.dir, ClonedEntry(op.url, op.branch))
                     ELSE Put(dirs, op.dir, PulledEntry(dirs[op.dir], op.branch))
          /\ procs' = [procs EXCEPT ![p].pc = "run", ![p].git = {},
                                    ![p].todo = IF ok THEN Tail(@) ELSE @,
                                    ![p].ops = IF ok THEN @
                                               ELSE SubSeq(@, 1, Len(@) - 1)]
          /\ last' = Call(procs[p].call, Head(procs[p].todo), "git exited")
          /\ gitOps' = <<>>

\* the git subprocess of the call exits: git exits 0 and has done its work,
\* or it exits with another code and the call fails
GitExits(p, net) ==
    /\ procs[p].pc = "git"
    /\ UNCHANGED <<config, configFile, userFile, exported, remote, peer, storeFile, failedWrites>>
    /\ LET op == CHOOSE o \in procs[p].git : TRUE
           ok == IF op.cmd = "clone"
                 THEN CloneSucceeds(dirs, op.dir, op.url, op.branch, net)
                 ELSE PullSucceeds(dirs, op.dir, op.branch, net)
       IN /\ dirs' = IF ~ok THEN dirs
                     ELSE IF op.cmd = "clone"
                     THEN Put(dirs, op.dir, ClonedEntry(op.url, op.branch))
                     ELSE Put(dirs, op.dir, PulledEntry(dirs[op.dir], op.branch))
          /\ IF ok
             THEN /\ procs' = [procs EXCEPT ![p].pc = "run", ![p].git = {},
                                            ![p].todo = Tail(@)]
                  /\ last' = Call(procs[p].call, Head(procs[p].todo), "git exited")
                  /\ gitOps' = <<>>
             ELSE Finished(p, IF op.cmd = "clone" THEN "Failed to clone repo"
                              ELSE "Failed to pull repo")

----------------------------------------------------------------------------

(* Process start *)

\* onStartLoadConfig succeeds on this content of the config file
LoadSucceeds(file) ==
    file = NoFile \/ (file[1] = "json" /\ ConfigDecodes(file[2]))

\* the config it returns
LoadedConfig(file) ==
    IF file = NoFile THEN Expanded(DEFAULT_CONFIG)
    ELSE Expanded(DecodeConfig(file[2]))

\* the config file it leaves: the defaults are written when there was none
LoadedFile(file) ==
    IF file = NoFile THEN JsonFile(StringifyConfig(DEFAULT_CONFIG)) ELSE file

----------------------------------------------------------------------------
\* config of a process whose start has failed: there is no service
NoConfig == <<>>

Running == config # NoConfig

\* the process ends and the next command starts one: configService yields
\* onStartLoadConfig, which fails when the write of the defaults fails, when
\* JSON.parse throws and when Schema.decode fails
Restart(wr) ==
    /\ CanWrite(wr)
    /\ gitOps' = <<>>
    /\ UNCHANGED <<userFile, exported, procs, dirs, remote, peer, storeFile>>
    /\ IF configFile = NoFile
       THEN /\ configFile' = CASE wr = "ok"        -> LoadedFile(NoFile)
                               [] wr = "denied"    -> NoFile
                               [] wr = "truncated" -> NotJson
            /\ failedWrites' = Counted(wr)
            /\ config' = IF wr = "ok" THEN LoadedConfig(NoFile) ELSE NoConfig
            /\ last' = Call("start", "",
                            IF wr = "ok" THEN "ok" ELSE "Failed to create default config")
       ELSE /\ UNCHANGED <<configFile, failedWrites>>
            /\ config' = IF LoadSucceeds(configFile) THEN LoadedConfig(configFile)
                         ELSE NoConfig
            /\ last' = Call("start", "",
                            IF LoadSucceeds(configFile) THEN "ok"
                            ELSE IF configFile = NotJson THEN "SyntaxError"
                            ELSE "ParseError")

\* the user edits, or deletes, the config file between two commands
UserEditsConfigFile(content) ==
    /\ configFile' = content
    /\ last' = Call("user edits config file", "", "ok")
    /\ gitOps' = <<>>
    /\ UNCHANGED <<config, userFile, exported, procs, dirs, remote, peer, storeFile, failedWrites>>

----------------------------------------------------------------------------

(* Inputs *)

\* a config file a user wrote before the first start
StartDoc == [
    promptsDirectory |-> <<"~", "/", "p">>,
    reposDirectory   |-> <<"~", "/", "r">>,
    port             |-> 4000,
    maxInstances     |-> 10,
    repos            |-> << [name |-> "a", url |-> "u1", branch |-> "main"] >>,
    model            |-> "m1",
    provider         |-> "p1" ]

StartFiles == {NoFile, JsonFile(StringifyConfig(StartDoc))}

\* documents a user gives to import: a valid one with a directory outside the
\* home directory, a repeated name and a key the schema does not know ...
ImportDoc ==
    JObject([
        promptsDirectory |-> JString(<<"~", "/", "p">>),
        reposDirectory   |-> JString(<<"/", "o", "/", "r">>),
        port             |-> JNumber(4000),
        maxInstances     |-> JNumber(10),
        repos            |-> JArray(<<
            JObject([name |-> JString("b"), url |-> JString("u2"),
                     branch |-> JString("dev"), specialNotes |-> JString("notes"),
                     stars |-> JNumber(7)]),
            JObject([name |-> JString("b"), url |-> JString("u1"),
                     branch |-> JString("main")]) >>),
        model            |-> JString("m2"),
        provider         |-> JString("p2"),
        theme            |-> JString("dark") ])

\* ... {"repos": "not-an-array", "model": 123} ...
BadTypesDoc ==
    JObject([repos |-> JString("not-an-array"), model |-> JNumber(123)])

\* ... and a document whose only fault is a repo without a url
BadRepoDoc ==
    JObject([
        promptsDirectory |-> JString(<<"~", "/", "p">>),
        reposDirectory   |-> JString(<<"~", "/", "r">>),
        port             |-> JNumber(4000),
        maxInstances     |-> JNumber(10),
        repos            |-> JArray(<<
            JObject([name |-> JString("a"), url |-> JString("u1"),
                     branch |-> JString("main")]),
            JObject([name |-> JString("b"), branch |-> JString("main")]) >>),
        model            |-> JString("m2"),
        provider         |-> JString("p2") ])

UserContents ==
    {NoFile, NotJson, JsonFile(ImportDoc), JsonFile(BadTypesDoc), JsonFile(BadRepoDoc)}

\* the repos addRepo is called with
AddRepos ==
    {[name |-> "a", url |-> "u1", branch |-> "main"],
     [name |-> "a", url |-> "u2", branch |-> "dev", specialNotes |-> "notes"],
     [name |-> "svelte", url |-> "u1", branch |-> "main"]}

RemoveNames == {"a", "svelte", "zz"}

Models == {[provider |-> "openai", model |-> "gpt-4"]}

----------------------------------------------------------------------------
(* The registry: every registry operation of one process, from its start *)

Init ==
    /\ \E file \in StartFiles :
        /\ LoadSucceeds(file)
        /\ config = LoadedConfig(file)
        /\ configFile = LoadedFile(file)
    /\ userFile = NoFile
    /\ dirs \in {<<>>,
                 [p \in {RepoDir(config.reposDirectory, "a")} |-> [kind |-> "dir"]]}
    /\ remote = [u \in RemoteUrls |-> [b \in Branches |-> 1]]
    /\ peer = NoConfig
    /\ storeFile = NoFile
    /\ gitOps = <<>>
    /\ last = Call("start", "", "ok")
    /\ exported = NoExport
    /\ procs = [p \in Requests |-> Idle]
    /\ failedWrites = 0

AddRepoStep ==
    \E repo \in AddRepos, valid \in BOOLEAN, wr \in WriteOutcomes :
        AddRepo(repo, valid, wr)

RemoveRepoStep ==
    \E name \in RemoveNames, deleteFiles \in BOOLEAN, wr \in WriteOutcomes :
        \E rm \in IF deleteFiles THEN BOOLEAN ELSE {TRUE} :
            RemoveRepo(name, deleteFiles, rm, wr)

UpdateModelStep ==
    \E m \in Models, wr \in WriteOutcomes : UpdateModel(m.provider, m.model, wr)

ResetConfigStep == \E wr \in WriteOutcomes : ResetConfig(wr)

ImportConfigStep == \E wr \in WriteOutcomes : ImportConfig(wr)

UserWritesFileStep == \E content \in UserContents : UserWritesFile(content)

Next ==
    \/ AddRepoStep
    \/ RemoveRepoStep
    \/ UpdateModelStep
    \/ ResetConfigStep
    \/ ImportConfigStep
    \/ UserWritesFileStep

Spec == Init /\ [][Next]_vars

----------------------------------------------------------------------------
(* Properties of the registry *)

UniqueNames(repos) ==
    \A i, j \in 1..Len(repos) : repos[i].name = repos[j].name => i = j

\* C1: an addRepo on a registry with pairwise distinct names leaves the names
\* pairwise distinct; an addRepo of a name that is registered fails with
\* "already exists", and neither the in-memory document nor the config file
\* changes.
C1_AddRepoKeepsNamesUnique ==
    [][last'.op = "addRepo" =>
       \A repo \in AddRepos, valid \in BOOLEAN, wr \in WriteOutcomes :
        AddRepo(repo, valid, wr) =>
            /\ UniqueNames(config.repos) => UniqueNames(config'.repos)
            /\ HasRepo(config, repo.name) =>
                /\ last'.result = "already exists"
                /\ config' = config
                /\ configFile' = configFile]_vars

C1_Witness ==
    /\ last.op = "addRepo"
    /\ last.result = "already exists"
    /\ HasRepo(config, last.name)
    /\ UniqueNames(config.repos)
    /\ Len(config.repos) >= 2

BadImports == {NoFile, NotJson, JsonFile(BadTypesDoc), JsonFile(BadRepoDoc)}

\* C3: importConfig of a file that is missing, is not JSON or violates the
\* schema fails, and the in-memory document and the config file are as before.
C3_ImportAllOrNothing ==
    [][last'.op = "importConfig" /\ ImportConfigStep /\ userFile \in BadImports =>
            /\ last'.result \in {"Import file not found",
                                 "Import file is not valid JSON",
                                 "Import file does not match config schema"}
            /\ config' = config
            /\ configFile' = configFile]_vars

C3_Witness ==
    /\ last.op = "importConfig"
    /\ last.result = "Import file does not match config schema"
    /\ userFile = JsonFile(BadRepoDoc)
    /\ config # Expanded(DEFAULT_CONFIG)

\* the operations that change the in-memory document
Mutators == {"addRepo", "removeRepo", "updateModel", "resetConfig", "importConfig"}

\* C10: when addRepo, removeRepo, updateModel, resetConfig or importConfig
\* has returned success, the config file holds the whole in-memory document,
\* its two directories collapsed to the home-relative form.
C10_SuccessMeansFullRewrite ==
    last.op \in Mutators /\ last.result = "ok" =>
        /\ configFile[1] = "json"
        /\ ConfigDecodes(configFile[2])
        /\ DecodeConfig(configFile[2]) =
            [config EXCEPT !.promptsDirectory = collapseHome(@),
                           !.reposDirectory = collapseHome(@)]

C10_Witness ==
    /\ last.op = "importConfig"
    /\ last.result = "ok"
    /\ failedWrites > 0
    /\ config.reposDirectory = <<"/", "o", "/", "r">>
    /\ config.promptsDirectory = <<"/", "h", "/", "p">>
    /\ configFile[2][2].reposDirectory = JString(<<"/", "o", "/", "r">>)
    /\ configFile[2][2].promptsDirectory = JString(<<"~", "/", "p">>)

----------------------------------------------------------------------------
\* C20: after an importConfig that returned success the in-memory
\* configuration is the imported document, nothing of the previous one:
\* its repos are the document's repos, its model, provider, port and
\* maxInstances the document's, its two directories the document's
\* expanded; and the config file holds that configuration.
C20_ImportReplacesWholeConfig ==
    last.op = "importConfig" /\ last.result = "ok" =>
        LET doc == userFile[2][2]
        IN /\ config.repos = DecodeRepos(doc.repos[2])
           /\ config.model = doc.model[2]
           /\ config.provider = doc.provider[2]
           /\ config.port = doc.port[2]
           /\ config.maxInstances = doc.maxInstances[2]
           /\ config.promptsDirectory = expandHome(doc.promptsDirectory[2])
           /\ config.reposDirectory = expandHome(doc.reposDirectory[2])
           /\ DOMAIN config = DOMAIN DEFAULT_CONFIG
           /\ configFile = JsonFile(StringifyConfig(Collapsed(config)))

\* the registry held repo a, or the default set, when the document with the
\* two repos b was imported; neither is left
C20_Witness ==
    /\ last.op = "importConfig"
    /\ last.result = "ok"
    /\ userFile = JsonFile(ImportDoc)
    /\ ~HasRepo(config, "a")
    /\ ~HasRepo(config, "svelte")
    /\ Len(config.repos) = 2
    /\ config.model = "m2"

(* The clones: the clone manager and the cleanup manager of one process,   *)
(* with the registry changes that make a clone directory outlive the repo  *)
(* it was cloned for, and a remote that grows.                             *)

\* the names the operations on clones are called with
CloneNames == {"a", "local", "zz"}

\* the repos registered while clones exist
CloneRepos ==
    {[name |-> "a", url |-> "u1", branch |-> "main"],
     [name |-> "a", url |-> "u1", branch |-> "dev"],
     [name |-> "a", url |-> "u2", branch |-> "main"],
     [name |-> "local", url |-> "u1", branch |-> "main"]}

\* what is at the path of repo a's clone when the process starts
StartDirs ==
    {<<>>,
     [p \in {RepoDir(Home \o <<"/", "r">>, "a")} |-> [kind |-> "file"]],
     [p \in {RepoDir(Home \o <<"/", "r">>, "a")} |-> [kind |-> "dir"]]}

InitClone ==
    /\ config = LoadedConfig(JsonFile(StringifyConfig(StartDoc)))
    /\ configFile = JsonFile(StringifyConfig(StartDoc))
    /\ userFile = NoFile
    /\ dirs \in StartDirs
    /\ remote = [u \in RemoteUrls |-> [b \in Branches |->
                    IF u = "u2" /\ b = "dev" THEN 0 ELSE 1]]
    /\ peer = NoConfig
    /\ storeFile = NoFile
    /\ gitOps = <<>>
    /\ last = Call("start", "", "ok")
    /\ exported = NoExport
    /\ procs = [p \in Requests |-> Idle]
    /\ failedWrites = 0

EnsureLocalStep == \E name \in CloneNames, net \in BOOLEAN : EnsureLocal(name, net)

GetRepoPathStep == \E name \in CloneNames, net \in BOOLEAN : GetRepoPath(name, net)

CleanRepoStep == \E name \in CloneNames, rm \in BOOLEAN : CleanRepo(name, rm)

CleanAllReposStep == \E failAt \in 0..Len(config.repos) : CleanAllRepos(failAt)

RegisterStep == \E repo \in CloneRepos : AddRepo(repo, TRUE, "ok")

UnregisterStep ==
    \E name \in CloneNames, deleteFiles \in BOOLEAN, wr \in WriteOutcomes :
        \E rm \in IF deleteFiles THEN BOOLEAN ELSE {TRUE} :
            RemoveRepo(name, deleteFiles, rm, wr)

MainCommitStep == RemoteCommit("u1", "main")

NextClone ==
    \/ EnsureLocalStep
    \/ GetRepoPathStep
    \/ CleanRepoStep
    \/ CleanAllReposStep
    \/ RegisterStep
    \/ UnregisterStep
    \/ MainCommitStep

SpecClone == InitClone /\ [][NextClone]_vars

----------------------------------------------------------------------------
(* Properties of the clones *)

\* something exists at dir and it is a directory
IsDirectory(fsys, dir) ==
    dir \in DOMAIN fsys /\ fsys[dir].kind \in {"dir", "clone"}

\* <reposDirectory>/<name>
CloneDir(name) == config.reposDirectory \o <<"/", name>>

C5_LocalNeedsNoGit ==
    [][\A net \in BOOLEAN :
        EnsureLocal("local", net) \/ GetRepoPath("local", net) =>
            /\ last'.result = "ok"
            /\ gitOps' = <<>>
            /\ dirs' = dirs
            /\ last'.op = "ensureLocal" => last'.ret.name = "local"
            /\ last'.op = "getRepoPath" => last'.ret = Cwd]_vars

C5_Witness ==
    /\ last.op = "ensureLocal"
    /\ last.name = "local"
    /\ last.result = "ok"
    /\ ~HasRepo(config, "local")
    /\ dirs # <<>>

\* C6: cleanOne of a registered repo other than "local" succeeds unless the
\* removal fails, and after a success no directory exists at
\* <reposDirectory>/<name>; after a successful cleanAll none exists for any
\* registered repo other than "local"; when none existed, the file system is
\* as before.  Either way the registry and the config file are as before.
C6_CleanKeepsRegistration ==
    [][/\ \A name \in CloneNames, rm \in BOOLEAN :
            CleanRepo(name, rm) =>
                /\ config' = config
                /\ configFile' = configFile
                /\ HasRepo(config, name) /\ name # "local" =>
                    /\ rm => last'.result = "ok"
                    /\ last'.result = "ok" => ~IsDirectory(dirs', CloneDir(name))
                    /\ ~IsDirectory(dirs, CloneDir(name)) =>
                        /\ last'.result = "ok"
                        /\ dirs' = dirs
       /\ \A failAt \in 0..Len(config.repos) :
            CleanAllRepos(failAt) =>
                /\ config' = config
                /\ configFile' = configFile
                /\ failAt = 0 => last'.result = "ok"
                /\ last'.result = "ok" =>
                    \A i \in 1..Len(config.repos) :
                        config.repos[i].name # "local" =>
                            ~IsDirectory(dirs', CloneDir(config.repos[i].name))]_vars

\* a clone was removed and its repo is still registered, in memory and on disk
C6_Witness ==
    /\ last.op = "cleanRepo"
    /\ last.name = "a"
    /\ last.result = "ok"
    /\ last.removed = {CloneDir("a")}
    /\ HasRepo(config, "a")
    /\ configFile = JsonFile(StringifyConfig(Collapsed(config)))

\* C7 as the spec states it: the second of two ensureLocal calls in a row is
\* a pull that changes nothing, and the commit checked out is the tip of
\* repo.branch on the remote the directory was cloned from.
C7_AsStated ==
    [][\A name \in CloneNames \ {"local"}, net \in BOOLEAN :
        /\ last.op = "ensureLocal" /\ last.name = name /\ last.result = "ok"
        /\ EnsureLocal(name, net)
        => LET repo == FindRepo(config, name)
           IN /\ gitOps' = <<[cmd |-> "pull", dir |-> CloneDir(name),
                              branch |-> repo.branch]>>
              /\ dirs' = dirs
              /\ dirs'[CloneDir(name)].head =
                    RemoteBranch(dirs'[CloneDir(name)].origin, repo.branch)]_vars

\* C7, amended: the second of two ensureLocal calls in a row, with no event
\* between them, is a pull that changes nothing; the commit checked out
\* contains the tip of repo.branch on the remote the directory was cloned
\* from, and is the tip of repo.branch on repo.url when the first call cloned.
C7_SecondCallChangesNothing ==
    [][\A name \in CloneNames \ {"local"}, net \in BOOLEAN :
        /\ last.op = "ensureLocal" /\ last.name = name /\ last.result = "ok"
        /\ EnsureLocal(name, net)
        => LET repo == FindRepo(config, name)
               clone == dirs'[CloneDir(name)]
           IN /\ gitOps' = <<[cmd |-> "pull", dir |-> CloneDir(name),
                              branch |-> repo.branch]>>
              /\ dirs' = dirs
              /\ RemoteBranch(clone.origin, repo.branch) \subseteq clone.head
              /\ gitOps[1].cmd = "clone" =>
                    clone.head = RemoteBranch(repo.url, repo.branch)]_vars

\* two calls in a row were made on a directory that had fallen behind
C7_Witness ==
    /\ last.op = "ensureLocal"
    /\ last.name = "a"
    /\ last.result = "ok"
    /\ gitOps # <<>>
    /\ gitOps[1].cmd = "pull"
    /\ dirs[CloneDir("a")].head = RemoteBranch(last.ret.url, last.ret.branch)
    /\ Cardinality(dirs[CloneDir("a")].head) >= 2

----------------------------------------------------------------------------
\* the last event is a cleanOne of name, or a cleanAll, that succeeded
CleanedLast(name) ==
    /\ last.result = "ok"
    /\ \/ last.op = "cleanRepo" /\ last.name = name
       \/ last.op = "cleanAllRepos"

\* C21: when cleanOne(name) or cleanAll has succeeded for a repo other than
\* "local" that is still registered, the ensureLocal(name) that comes next
\* runs git clone, not git pull, and when it succeeds the clone directory
\* exists again, a clone of the repo's url.
C21_CleanThenFreshClone ==
    [][\A name \in CloneNames \ {"local"}, net \in BOOLEAN :
        /\ last.op \in {"cleanRepo", "cleanAllRepos"}
        /\ CleanedLast(name)
        /\ HasRepo(config, name)
        /\ EnsureLocal(name, net)
        => LET repo == FindRepo(config, name)
           IN /\ gitOps' = <<[cmd |-> "clone", dir |-> CloneDir(name),
                              url |-> repo.url, branch |-> repo.branch]>>
              /\ last'.result \in {"ok", "Failed to clone repo"}
              /\ last'.result = "ok" =>
                   /\ IsDirectory(dirs', CloneDir(name))
                   /\ IsClone(dirs', CloneDir(name))
                   /\ dirs'[CloneDir(name)].origin = repo.url]_vars

\* cleanOne has just removed the clone of the registered repo a, and the
\* ensureLocal that can follow clones it again
C21_Witness ==
    /\ last.op = "cleanRepo"
    /\ last.name = "a"
    /\ last.result = "ok"
    /\ last.removed # {}
    /\ HasRepo(config, "a")
    /\ ENABLED (/\ EnsureLocal("a", TRUE)
                /\ gitOps'[1].cmd = "clone"
                /\ last'.result = "ok"
                /\ IsDirectory(dirs', CloneDir("a")))

\* C22 as the spec states it: no call given the name "local" (addRepo,
\* removeRepo, ensureLocal, getRepoPath, cleanOne) runs a git subprocess, a
\* url validation among them, or removes a directory; cleanOne("local")
\* succeeds.
C22_LocalNeverTouched ==
    [][last'.name = "local" /\ last'.op # "start" =>
          /\ gitOps' = <<>>
          /\ DOMAIN dirs \subseteq DOMAIN dirs'
          /\ last'.op = "cleanRepo" => last'.result = "ok"]_vars

C30_PathOnlyAfterCloneOrPull ==
    last.op = "getRepoPath" /\ last.name # "local" =>
        /\ last.result = "ok" =>
             /\ HasRepo(config, last.name)
             /\ last.ret = CloneDir(last.name)
             /\ Len(gitOps) = 1
             /\ gitOps[1].cmd \in {"clone", "pull"}
             /\ gitOps[1].dir = last.ret
             /\ IsDirectory(dirs, last.ret)
             /\ IsClone(dirs, last.ret)
        /\ last.result # "ok" =>
             /\ last.ret = <<>>
             /\ last.result \in {"not found", "Failed to clone repo", "Failed to pull repo"}
        /\ HasRepo(config, last.name) /\ ~IsClone(dirs, CloneDir(last.name)) =>
             last.result \in {"Failed to clone repo", "Failed to pull repo"}

\* the path of repo a was returned after the clone the call made
C30_Witness ==
    /\ last.op = "getRepoPath"
    /\ last.name = "a"
    /\ last.result = "ok"
    /\ last.ret = CloneDir("a")
    /\ gitOps[1].cmd = "clone"
    /\ IsClone(dirs, CloneDir("a"))

(* The status of a clone: one process that clones and pulls repo a, asks   *)
(* for its status and re-registers it with another branch or url, while    *)
(* the remotes grow and the user works in the clone.                       *)

StatusRepos ==
    {[name |-> "a", url |-> "u1", branch |-> "dev"],
     [name |-> "a", url |-> "u2", branch |-> "dev"]}

EnsureLocalAStep == \E net \in BOOLEAN : EnsureLocal("a", net)

GetStatusStep == \E name \in CloneNames, net \in BOOLEAN : GetStatus(name, net)

ReRegisterStep ==
    \/ RemoveRepo("a", FALSE, TRUE, "ok")
    \/ \E repo \in StatusRepos : AddRepo(repo, TRUE, "ok")

RemoteCommitStep == \E url \in RemoteUrls, b \in Branches : RemoteCommit(url, b)

UserEditsTrackedStep == \E dir \in DOMAIN dirs : UserEditsTracked(dir)

UserAddsUntrackedStep == \E dir \in DOMAIN dirs : UserAddsUntracked(dir)

NextStatus ==
    \/ EnsureLocalAStep
    \/ GetStatusStep
    \/ ReRegisterStep
    \/ RemoteCommitStep
    \/ UserEditsTrackedStep
    \/ UserAddsUntrackedStep

SpecStatus == InitClone /\ [][NextStatus]_vars

\* C9: a status that getStatus returns for an existing clone has dirty true
\* exactly when a tracked file is changed, and, when the remote has the
\* repo's branch, behind the number of commits of origin/<branch> that HEAD
\* lacks and ahead the number of commits of HEAD that origin/<branch> lacks,
\* origin/<branch> being what the remote holds at the call.
C9_StatusCounts ==
    last.op = "getStatus" /\ last.result = "ok" /\ last.name # "local" /\ last.ret.exists =>
        LET clone == dirs[last.ret.path]
            onRemote == RemoteBranch(clone.origin, FindRepo(config, last.name).branch)
        IN /\ last.ret.path = CloneDir(last.name)
           /\ last.ret.dirty = clone.modified
           /\ onRemote # {} =>
                /\ last.ret.behind = Cardinality(onRemote \ clone.head)
                /\ last.ret.ahead = Cardinality(clone.head \ onRemote)

\* a clone with an untracked file only, one commit behind its remote
C9_Witness ==
    /\ last.op = "getStatus"
    /\ last.result = "ok"
    /\ last.ret.exists
    /\ last.ret.behind = 1
    /\ last.ret.ahead = 0
    /\ ~last.ret.dirty
    /\ dirs[last.ret.path].untracked

----------------------------------------------------------------------------
\* C15: getStatus runs git only for a registered repo other than "local"
\* whose clone directory exists. For "local" it returns the current
\* directory, and for an absent directory the would-be path, both with
\* zeros and without any git operation. For an existing directory the fetch
\* comes first, status and rev-list follow only a fetch that succeeded, and
\* a failed fetch makes the call fail.
C15_StatusGitOnlyForExistingClone ==
    last.op = "getStatus" =>
        LET known == last.name # "local" /\ HasRepo(config, last.name)
            there == known /\ directoryExists(dirs, CloneDir(last.name))
        IN /\ gitOps # <<>> => there
           /\ last.name = "local" =>
                last.result = "ok" /\ last.ret = Status(TRUE, Cwd, NoStatus)
           /\ known /\ ~there =>
                last.result = "ok" /\ last.ret = Status(FALSE, CloneDir(last.name), NoStatus)
           /\ there =>
                /\ gitOps[1] = [cmd |-> "fetch", dir |-> CloneDir(last.name)]
                /\ last.result \in {"ok", "Failed to fetch repo"}
                /\ last.result = "Failed to fetch repo" <=> Len(gitOps) = 1
                /\ last.result = "ok" =>
                     /\ Len(gitOps) = 3
                     /\ gitOps[2].cmd = "status"
                     /\ gitOps[3].cmd = "rev-list"
                     /\ last.ret.exists

\* the status of a registered repo whose directory is absent, asked for
\* while the network is down
C15_Witness ==
    /\ last.op = "getStatus"
    /\ last.name = "a"
    /\ HasRepo(config, "a")
    /\ ~directoryExists(dirs, CloneDir("a"))
    /\ last.result = "ok"
    /\ ~last.ret.exists
    /\ gitOps = <<>>

(* Export and import: one process exports, changes its configuration and   *)
(* imports, as a second process with another configuration would.          *)

PortingRepos ==
    {[name |-> "a", url |-> "u2", branch |-> "dev", specialNotes |-> "notes"],
     [name |-> "c", url |-> "u1", branch |-> "main"]}

ExportConfigStep == \E wr \in WriteOutcomes : ExportConfig(wr)

PortingAddStep == \E repo \in PortingRepos : AddRepo(repo, TRUE, "ok")

NextPorting ==
    \/ ExportConfigStep
    \/ ImportConfigStep
    \/ PortingAddStep
    \/ UpdateModelStep
    \/ ResetConfigStep
    \/ UserWritesFileStep

SpecPorting == Init /\ [][NextPorting]_vars

\* C8: an import of a file that exportConfig wrote does not fail on the file,
\* and leaves in memory the repos (their order and their fields), the model,
\* the provider, the port and maxInstances of the exported document.
C8_ExportImportRoundTrip ==
    [][ImportConfigStep /\ exported # NoExport =>
            /\ last'.result \in {"ok", "Failed to write config"}
            /\ config'.repos = exported.repos
            /\ config'.model = exported.model
            /\ config'.provider = exported.provider
            /\ config'.port = exported.port
            /\ config'.maxInstances = exported.maxInstances]_vars

\* an export of two repos, one with notes, was imported
C8_Witness ==
    /\ last.op = "importConfig"
    /\ last.result = "ok"
    /\ exported # NoExport
    /\ config.repos = exported.repos
    /\ Len(config.repos) >= 2
    /\ \E i \in 1..Len(config.repos) : "specialNotes" \in DOMAIN config.repos[i]
    /\ config.model = "gpt-4"

----------------------------------------------------------------------------
(* Further properties of the registry *)

\* the names of the repos a configuration file holds
NamesInFile(file) ==
    {file[2][2].repos[2][i][2].name[2] : i \in 1..Len(file[2][2].repos[2])}

\* C11: removeRepo of a name that is not registered fails with "not found"
\* and changes nothing.  With deleteFiles, a directory that cannot be removed
\* makes the call fail with the registry, the config file and the file system
\* as before, and an absent directory is no failure.  After a success the
\* name is neither in the in-memory registry nor in the config file, and with
\* deleteFiles no directory is left at <reposDirectory>/<name>.
C11_RemoveRepoFilesFirst ==
    [][last'.op = "removeRepo" =>
       \A name \in {last'.name}, deleteFiles \in BOOLEAN, rm \in BOOLEAN, wr \in WriteOutcomes :
        RemoveRepo(name, deleteFiles, rm, wr) =>
            /\ ~HasRepo(config, name) =>
                /\ last'.result = "not found"
                /\ config' = config /\ configFile' = configFile /\ dirs' = dirs
            /\ HasRepo(config, name) /\ deleteFiles /\ IsDirectory(dirs, CloneDir(name)) /\ ~rm =>
                /\ last'.result = "Failed to remove directory"
                /\ config' = config /\ configFile' = configFile /\ dirs' = dirs
            /\ HasRepo(config, name) /\ ~(deleteFiles /\ IsDirectory(dirs, CloneDir(name))) =>
                /\ last'.result = IF wr = "ok" THEN "ok" ELSE "Failed to write config"
                /\ dirs' = dirs
            /\ last'.result = "ok" =>
                /\ ~HasRepo(config', name)
                /\ configFile'[1] = "json"
                /\ name \notin NamesInFile(configFile')
                /\ deleteFiles => ~IsDirectory(dirs', CloneDir(name))]_vars

\* a removal of the files failed and the repo is still registered
C11_Witness ==
    /\ last.op = "removeRepo"
    /\ last.result = "Failed to remove directory"
    /\ HasRepo(config, last.name)
    /\ IsClone(dirs, CloneDir(last.name))
    /\ configFile[1] = "json"
    /\ last.name \in NamesInFile(configFile)

----------------------------------------------------------------------------
(* Calls in progress: one process that serves questions and updates all    *)
(* repos, several calls at a time, on a registry that does not change.     *)

\* the registries the process is started with
CallRegistries ==
    {<<>>,
     <<[name |-> "a", url |-> "u1", branch |-> "main"]>>,
     <<[name |-> "b", url |-> "u2", branch |-> "main"],
       [name |-> "a", url |-> "u1", branch |-> "main"]>>,
     <<[name |-> "a", url |-> "u1", branch |-> "main"],
       [name |-> "local", url |-> "u1", branch |-> "main"],
       [name |-> "b", url |-> "u2", branch |-> "main"],
       [name |-> "c", url |-> "u1", branch |-> "dev"]>>}

InitCalls ==
    /\ \E repos \in CallRegistries :
        /\ config = [LoadedConfig(JsonFile(StringifyConfig(StartDoc))) EXCEPT !.repos = repos]
        /\ configFile = JsonFile(StringifyConfig([StartDoc EXCEPT !.repos = repos]))
    /\ userFile = NoFile
    /\ dirs \in StartDirs
    /\ remote = [u \in RemoteUrls |-> [b \in Branches |-> 1]]
    /\ peer = NoConfig
    /\ storeFile = NoFile
    /\ gitOps = <<>>
    /\ last = Call("start", "", "ok")
    /\ exported = NoExport
    /\ procs = [p \in Requests |-> Idle]
    /\ failedWrites = 0

\* the repos questions are asked about
AskNames == {"a", "local"}

AskQuestionStep == \E p \in Requests, tech \in AskNames : AskQuestion(p, tech)

UpdateAllReposStep == \E p \in Requests : UpdateAllRepos(p)

RunToSpawnStep == \E p \in Requests : RunToSpawn(p)

GitExitsStep == \E p \in Requests, net \in BOOLEAN : GitExits(p, net)

NextCalls ==
    \/ AskQuestionStep
    \/ UpdateAllReposStep
    \/ RunToSpawnStep
    \/ GitExitsStep

SpecCalls == InitCalls /\ [][NextCalls]_vars

\* the names of a sequence that are not the reserved name
RECURSIVE NonLocal(_)
NonLocal(names) ==
    IF names = <<>> THEN <<>>
    ELSE IF Head(names) = "local" THEN NonLocal(Tail(names))
    ELSE <<Head(names)>> \o NonLocal(Tail(names))

\* the names of a call that it has finished with
Finishedwith(c) == SubSeq(c.names, 1, Len(c.names) - Len(c.todo))

\* the subprocesses ops are, in order, one for each of the names
OneForEach(ops, names) ==
    /\ Len(ops) = Len(names)
    /\ \A i \in 1..Len(ops) :
        /\ ops[i].cmd \in {"clone", "pull"}
        /\ ops[i].dir = CloneDir(names[i])

\* the last event is the return or the failure of a call
Returned == "todo" \in DOMAIN last

\* C12: an updateAllRepos in progress has spawned one clone or pull for each
\* registered repo before the one it is at, in registry order, "local"
\* skipped, and at most one of them runs.  A git subprocess of it that fails
\* makes it fail at once.  When it has failed, its last subprocess was the
\* one for the repo it failed at and none was spawned for a repo after that;
\* when it has succeeded there was one for each repo; with an empty registry
\* it succeeds with none.
C12_UpdateAllInOrderUntilFailure ==
    /\ [](\A p \in Requests : procs[p].call = "updateAllRepos" =>
            LET c == procs[p]
            IN /\ c.names = RepoNames(config.repos)
               /\ Cardinality(c.git) <= 1
               /\ c.pc = "run" => c.git = {} /\ OneForEach(c.ops, NonLocal(Finishedwith(c)))
               /\ c.pc = "git" =>
                    /\ c.git = {c.ops[Len(c.ops)]}
                    /\ OneForEach(c.ops, NonLocal(Finishedwith(c)) \o <<Head(c.todo)>>))
    /\ [](last.op = "updateAllRepos" /\ Returned =>
            /\ last.names = RepoNames(config.repos)
            /\ last.names = <<>> => last.result = "ok" /\ gitOps = <<>>
            /\ last.result = "ok" =>
                /\ last.todo = <<>>
                /\ OneForEach(gitOps, NonLocal(last.names))
            /\ last.result # "ok" =>
                /\ last.todo # <<>>
                /\ OneForEach(gitOps, NonLocal(Finishedwith(last)) \o <<Head(last.todo)>>))
    /\ [][\A p \in Requests :
            GitExits(p, FALSE) /\ procs[p].call = "updateAllRepos" =>
                /\ procs'[p] = Idle
                /\ last'.op = "updateAllRepos" /\ Returned'
                /\ last'.result \in {"Failed to clone repo", "Failed to pull repo"}
                /\ dirs' = dirs]_vars

\* an update failed at the third of four repos, after a clone for the first
C12_Witness ==
    /\ last.op = "updateAllRepos"
    /\ Returned
    /\ last.result = "Failed to clone repo"
    /\ Len(last.names) = 4
    /\ Len(last.todo) = 2
    /\ Len(gitOps) = 2
    /\ IsClone(dirs, CloneDir("a"))
    /\ \E p \in Requests : procs[p].pc = "git"

----------------------------------------------------------------------------
(* The server: one process that answers questions about a registered repo  *)
(* and about the working directory, several requests at a time.            *)

InitServe == InitCalls /\ Len(config.repos) = 1

NextServe ==
    \/ AskQuestionStep
    \/ RunToSpawnStep
    \/ GitExitsStep

SpecServe == InitServe /\ [][NextServe]_vars

\* C13: a call that is about to run cloneOrUpdateOneRepoLocally is never made
\* to wait for the git subprocess of another call, whatever directory that
\* runs in: nothing excludes two subprocesses in one directory.
C13_NoMutualExclusion ==
    \A p \in Requests : procs[p].pc = "run" => ENABLED RunToSpawn(p)

\* two clones of the same repo into the same directory run at the same time
C13_Witness ==
    \E p, q \in Requests :
        /\ p # q
        /\ procs[p].pc = "git" /\ procs[q].pc = "git"
        /\ \E o1 \in procs[p].git, o2 \in procs[q].git :
            /\ o1.cmd = "clone" /\ o2.cmd = "clone"
            /\ o1.dir = o2.dir
            /\ o1.dir \notin DOMAIN dirs

----------------------------------------------------------------------------
(* Restarts: every command is a process of its own that loads the config   *)
(* file when it starts; between two commands the user may edit the file.   *)

\* a config file edited by hand: valid, its repos directory written in full
HandDoc == [StartDoc EXCEPT !.reposDirectory = Home \o <<"/", "r">>]

\* an import file whose repos directory is a relative path
RelativeDoc == [StartDoc EXCEPT !.reposDirectory = <<"r">>, !.model = "m3"]

ConfigEdits ==
    {NoFile, JsonFile(BadRepoDoc), JsonFile(BadTypesDoc), JsonFile(StringifyConfig(HandDoc))}

RestartImports == {JsonFile(ImportDoc), JsonFile(StringifyConfig(RelativeDoc))}

RestartStep == \E wr \in WriteOutcomes : Restart(wr)

UserEditsConfigFileStep == \E content \in ConfigEdits : UserEditsConfigFile(content)

RunningAddStep ==
    /\ Running
    /\ \E valid \in BOOLEAN, wr \in WriteOutcomes :
           AddRepo([name |-> "c", url |-> "u1", branch |-> "main"], valid, wr)

RunningRemoveStep == Running /\ \E wr \in WriteOutcomes : RemoveRepo("a", FALSE, TRUE, wr)

RunningUpdateModelStep == Running /\ UpdateModelStep

RunningResetStep == Running /\ ResetConfigStep

RunningImportStep == Running /\ ImportConfigStep

UserWritesImportStep == \E content \in RestartImports : UserWritesFile(content)

NextRestart ==
    \/ RestartStep
    \/ UserEditsConfigFileStep
    \/ RunningAddStep
    \/ RunningRemoveStep
    \/ RunningUpdateModelStep
    \/ RunningResetStep
    \/ RunningImportStep
    \/ UserWritesImportStep

SpecRestart == Init /\ [][NextRestart]_vars

\* C14 as the spec states it: a start on a config file that is not JSON or
\* does not match the schema succeeds, with the built-in defaults as the
\* configuration.
C14_LoadFallsBackToDefaults ==
    last.op = "start" /\ configFile # NoFile /\ ~LoadSucceeds(configFile) =>
        /\ last.result = "ok"
        /\ config = Expanded(DEFAULT_CONFIG)

\* C16 as the spec states it: whatever addRepo, removeRepo, updateModel,
\* resetConfig, importConfig and restarts have run, no two repos of the
\* registry have the same name.
C16_NamesAlwaysUnique ==
    Running => UniqueNames(config.repos)

\* the entries the registry has after the step and had not before it
NewEntries ==
    IF ~Running' THEN {}
    ELSE IF ~Running THEN {config'.repos[i] : i \in 1..Len(config'.repos)}
    ELSE {config'.repos[i] : i \in 1..Len(config'.repos)}
             \ {config.repos[i] : i \in 1..Len(config.repos)}

\* the step is an addRepo that has asked the remote about the url of the one
\* entry it appends, and was not refused
ValidatedAdd ==
    /\ last'.op = "addRepo"
    /\ last'.result # "Failed to validate repo"
    /\ \E e \in NewEntries :
        /\ config'.repos = Append(config.repos, e)
        /\ gitOps' = <<[cmd |-> "ls-remote", url |-> e.url]>>

\* the step leaves the registry with the built-in default set
SeedsDefaults ==
    /\ last'.op = "resetConfig" \/ (last'.op = "start" /\ configFile = NoFile)
    /\ config'.repos = DEFAULT_CONFIG.repos

\* C17 as the spec states it: an entry enters the registry only by an
\* addRepo whose url passed validation or with the built-in default set (a
\* start that loads the existing config file puts none in).
C17_AsStated ==
    [][NewEntries # {} => ValidatedAdd \/ SeedsDefaults \/ last'.op = "start"]_vars

\* C17: an entry enters the registry only by an addRepo whose url passed
\* validation, with the built-in default set on first run or reset, with
\* the document of an importConfig, or with the config file a start loads;
\* the urls of the last two are not validated.
C17_EntriesFromAddDefaultsImportLoad ==
    [][NewEntries # {} =>
          \/ ValidatedAdd
          \/ SeedsDefaults
          \/ /\ last'.op = "importConfig"
             /\ userFile # NoFile
             /\ config'.repos = DecodeConfig(userFile[2]).repos
             /\ gitOps' = <<>>
          \/ /\ last'.op = "start"
             /\ configFile # NoFile
             /\ config'.repos = DecodeConfig(configFile[2]).repos
             /\ gitOps' = <<>>]_vars

\* an import has put two entries into the registry, and no git ran
C17_Witness ==
    /\ Running
    /\ last.op = "importConfig"
    /\ last.result = "ok"
    /\ userFile = JsonFile(ImportDoc)
    /\ Len(config.repos) = 2
    /\ config.repos[1].url = "u2"
    /\ gitOps = <<>>

IsAbsolute(p) == p # <<>> /\ p[1] = "/"

\* p is the home directory or lies below it
UnderHome(p) == p = Home \/ StartsWith(p, Home \o <<"/">>)

\* s is a stored directory in collapsed form wherever it can be
StoredCollapsed(s) == UnderHome(expandHome(s)) => s # <<>> /\ s[1] = "~"

\* C18 as the spec states it: after a start and after every call of the
\* service, the two directories of the in-memory configuration are absolute
\* paths, and the two directories the config file stores are written with
\* "~" when they lie under the home directory.
C18_AbsoluteInMemoryCollapsedOnDisk ==
    Running /\ last.op # "user edits config file" =>
        /\ IsAbsolute(config.promptsDirectory)
        /\ IsAbsolute(config.reposDirectory)
        /\ LoadSucceeds(configFile) /\ configFile # NoFile =>
             /\ StoredCollapsed(DecodeConfig(configFile[2]).promptsDirectory)
             /\ StoredCollapsed(DecodeConfig(configFile[2]).reposDirectory)

----------------------------------------------------------------------------
(* The two path conversions on their own: a directory is collapsed as      *)
(* writeConfig does, the stored string expanded as the next load does, and *)
(* the result collapsed again as the next write does.                      *)

PathChars == {"/", "h", "r"}

\* every string of at most MaxPathLen characters
Paths == UNION {[1..n -> PathChars] : n \in 1..MaxPathLen}

Applied(op, arg, ret) ==
    [op |-> op, name |-> "", result |-> "ok", arg |-> arg, ret |-> ret]

InitPaths ==
    /\ \E p \in Paths : config = [Expanded(DEFAULT_CONFIG) EXCEPT !.reposDirectory = p]
    /\ configFile = NoFile
    /\ userFile = NoFile
    /\ dirs = <<>>
    /\ remote = [u \in RemoteUrls |-> [b \in Branches |-> 1]]
    /\ peer = NoConfig
    /\ storeFile = NoFile
    /\ gitOps = <<>>
    /\ last = Call("start", "", "ok")
    /\ exported = NoExport
    /\ procs = [p \in Requests |-> Idle]
    /\ failedWrites = 0

\* writeConfig collapses the in-memory directory
CollapseStep ==
    /\ last.op = "start"
    /\ last' = Applied("collapseHome", config.reposDirectory,
                       collapseHome(config.reposDirectory))
    /\ UNCHANGED <<config, configFile, userFile, dirs, remote, peer, storeFile, gitOps, exported,
                   procs, failedWrites>>

\* the next load expands the stored string
ExpandStep ==
    /\ last.op = "collapseHome"
    /\ last' = Applied("expandHome", last.ret, expandHome(last.ret))
    /\ UNCHANGED <<config, configFile, userFile, dirs, remote, peer, storeFile, gitOps, exported,
                   procs, failedWrites>>

\* the next write collapses what the load gave
CollapseAgainStep ==
    /\ last.op = "expandHome"
    /\ last' = [op |-> "collapseHome again", name |-> "", result |-> "ok",
                arg |-> last.ret, ret |-> collapseHome(last.ret), stored |-> last.arg]
    /\ UNCHANGED <<config, configFile, userFile, dirs, remote, peer, storeFile, gitOps, exported,
                   procs, failedWrites>>

NextPaths ==
    \/ CollapseStep
    \/ ExpandStep
    \/ CollapseAgainStep

SpecPaths == InitPaths /\ [][NextPaths]_vars

\* C19 as the spec states it: for every path p that is the home directory
\* or lies below it, expandHome(collapseHome(p)) = p, and for the stored
\* string s = collapseHome(p), collapseHome(expandHome(s)) = s.
C19_CollapseExpandInverse ==
    UnderHome(config.reposDirectory) =>
        /\ last.op = "expandHome" => last.ret = config.reposDirectory
        /\ last.op = "collapseHome again" => last.ret = last.stored

\* the default set as the service holds it, and as the config file holds it
DefaultInMemory ==
    [promptsDirectory |-> expandHome(DEFAULT_CONFIG.promptsDirectory),
     reposDirectory   |-> expandHome(DEFAULT_CONFIG.reposDirectory),
     port             |-> DEFAULT_CONFIG.port,
     maxInstances     |-> DEFAULT_CONFIG.maxInstances,
     repos            |-> DEFAULT_CONFIG.repos,
     model            |-> "big-pickle",
     provider         |-> "opencode"]

DefaultOnDisk == JsonFile(StringifyConfig(DEFAULT_CONFIG))

\* C23: a start that finds no config file and succeeds has the default set
\* with its directories expanded as its configuration (repos not empty,
\* provider "opencode", model "big-pickle") and has written the default set
\* to the config file; a resetConfig leaves that same configuration in
\* memory whatever it had before, and the same file when it succeeds; a
\* second resetConfig right after a successful one changes nothing.
C23_FirstRunAndResetGiveDefaults ==
    /\ [][/\ last'.op = "start" /\ last'.result = "ok" /\ configFile = NoFile =>
               /\ config' = DefaultInMemory
               /\ Len(config'.repos) > 0
               /\ configFile' = DefaultOnDisk
          /\ last'.op = "resetConfig" =>
               /\ config' = DefaultInMemory
               /\ last'.result = "ok" => configFile' = DefaultOnDisk
               /\ last.op = "resetConfig" /\ last.result = "ok" /\ last'.result = "ok" =>
                    config' = config /\ configFile' = configFile]_vars

\* the service holds the imported configuration with the two repos b, and
\* the resetConfig that can follow leaves the default set in memory and on disk
C23_Witness ==
    /\ Running
    /\ last.op = "importConfig"
    /\ last.result = "ok"
    /\ config.model = "m2"
    /\ config # DefaultInMemory
    /\ configFile # DefaultOnDisk
    /\ ENABLED (/\ ResetConfig("ok")
                /\ config' = DefaultInMemory
                /\ configFile' = DefaultOnDisk)

----------------------------------------------------------------------------
(* The status command: a status record that getRepoStatus has returned is  *)
(* printed by printStatus (status -t <tech>) and by printStatusRow (the    *)
(* table of status without -t).                                            *)

\* what printStatus(name, status) writes after the "Repository:" line
printStatus(status) ==
    IF ~status.exists
    THEN << [label |-> "Status:", text |-> "Not found locally", counts |-> <<>>],
            [label |-> "Path:", text |-> "", path |-> status.path] >>
    ELSE << IF status.dirty
            THEN [label |-> "Status:", text |-> "Dirty", counts |-> <<>>]
            ELSE IF status.behind > 0
            THEN [label |-> "Status:", text |-> "Behind", counts |-> <<status.behind>>]
            ELSE IF status.ahead > 0
            THEN [label |-> "Status:", text |-> "Ahead", counts |-> <<status.ahead>>]
            ELSE [label |-> "Status:", text |-> "Up to date", counts |-> <<>>] >>
         \o (IF status.behind > 0 /\ status.ahead > 0
             THEN << [label |-> "(Diverged:", text |-> "",
                      counts |-> <<status.ahead, status.behind>>] >>
             ELSE <<>>)
         \o << [label |-> "Path:", text |-> "", path |-> status.path] >>

\* the statusText and details of the row printStatusRow(name, status) writes
printStatusRow(status) ==
    IF ~status.exists THEN [statusText |-> "Missing", details |-> <<>>]
    ELSE IF status.dirty THEN [statusText |-> "Dirty", details |-> <<>>]
    ELSE IF status.behind > 0 /\ status.ahead > 0
    THEN [statusText |-> "Diverged", details |-> <<status.ahead, status.behind>>]
    ELSE IF status.behind > 0
    THEN [statusText |-> "Behind", details |-> <<status.behind>>]
    ELSE IF status.ahead > 0
    THEN [statusText |-> "Ahead", details |-> <<status.ahead>>]
    ELSE [statusText |-> "Up to date", details |-> <<>>]

\* the records getRepoStatus returns for repo a
StatusRecords ==
    {Status(FALSE, Home \o <<"/", "r", "/", "a">>, NoStatus)}
    \cup {Status(TRUE, Home \o <<"/", "r", "/", "a">>,
                 [dirty |-> d, ahead |-> a, behind |-> b]) :
            d \in BOOLEAN, a \in 0..MaxCount, b \in 0..MaxCount}

InitPresent ==
    /\ config = LoadedConfig(JsonFile(StringifyConfig(StartDoc)))
    /\ configFile = JsonFile(StringifyConfig(StartDoc))
    /\ userFile = NoFile
    /\ dirs = <<>>
    /\ remote = [u \in RemoteUrls |-> [b \in Branches |-> 1]]
    /\ peer = NoConfig
    /\ storeFile = NoFile
    /\ gitOps = <<>>
    /\ \E st \in StatusRecords :
         last = [op |-> "getStatus", name |-> "a", result |-> "ok", ret |-> st]
    /\ exported = NoExport
    /\ procs = [p \in Requests |-> Idle]
    /\ failedWrites = 0

PrintStatusStep ==
    /\ last.op = "getStatus"
    /\ last' = [op |-> "printStatus", name |-> "a", result |-> "ok",
                ret |-> last.ret, lines |-> printStatus(last.ret)]
    /\ UNCHANGED <<config, configFile, userFile, dirs, remote, peer, storeFile, gitOps, exported,
                   procs, failedWrites>>

PrintStatusRowStep ==
    /\ last.op = "printStatus"
    /\ last' = [op |-> "printStatusRow", name |-> "a", result |-> "ok",
                ret |-> last.ret, lines |-> last.lines, row |-> printStatusRow(last.ret)]
    /\ UNCHANGED <<config, configFile, userFile, dirs, remote, peer, storeFile, gitOps, exported,
                   procs, failedWrites>>

NextPresent ==
    \/ PrintStatusStep
    \/ PrintStatusRowStep

SpecPresent == InitPresent /\ [][NextPresent]_vars

Classifications == {"Dirty", "Diverged", "Behind", "Ahead", "Up to date"}

\* the classifications a printed line shows
ShownBy(line) ==
    IF line.label = "Status:" THEN {line.text} \cap Classifications
    ELSE IF line.label = "(Diverged:" THEN {"Diverged"}
    ELSE {}

\* the classifications the single-repo output shows
ShownSingle(lines) == UNION {ShownBy(lines[i]) : i \in 1..Len(lines)}

\* the classification of a record by the priority of the spec
Classified(st) ==
    IF st.dirty THEN "Dirty"
    ELSE IF st.ahead > 0 /\ st.behind > 0 THEN "Diverged"
    ELSE IF st.behind > 0 THEN "Behind"
    ELSE IF st.ahead > 0 THEN "Ahead"
    ELSE "Up to date"

\* C24 as the spec states it: for the record of an existing clone the
\* single-repo output and the table row each show exactly one
\* classification, the same one, chosen by the priority Dirty, then
\* Diverged, Behind and Ahead, then Up to date.
C24_OneClassificationInBothOutputs ==
    last.op = "printStatusRow" /\ last.ret.exists =>
        /\ last.row.statusText = Classified(last.ret)
        /\ ShownSingle(last.lines) = {Classified(last.ret)}

----------------------------------------------------------------------------
\* C26: updateModel(provider, model) leaves the given provider and model in
\* the in-memory configuration, which getModel and rawConfig return, and
\* repos, promptsDirectory, reposDirectory, port and maxInstances as they
\* were; when it succeeds the config file holds the given provider and
\* model too.
C26_UpdateModelChangesOnlyModel ==
    [][\A m \in Models, wr \in WriteOutcomes :
        last'.op = "updateModel" /\ UpdateModel(m.provider, m.model, wr) =>
            /\ config'.provider = m.provider
            /\ config'.model = m.model
            /\ config'.repos = config.repos
            /\ config'.promptsDirectory = config.promptsDirectory
            /\ config'.reposDirectory = config.reposDirectory
            /\ config'.port = config.port
            /\ config'.maxInstances = config.maxInstances
            /\ DOMAIN config' = DOMAIN config
            /\ last'.result = "ok" =>
                 /\ configFile'[2][2].provider = JString(m.provider)
                 /\ configFile'[2][2].model = JString(m.model)]_vars

\* the model was updated on the imported configuration: its two repos, its
\* port and its repos directory outside the home directory are still there
C26_Witness ==
    /\ Running
    /\ last.op = "updateModel"
    /\ last.result = "ok"
    /\ config.provider = "openai"
    /\ config.model = "gpt-4"
    /\ Len(config.repos) = 2
    /\ config.repos[1].name = "b"
    /\ config.reposDirectory = <<"/", "o", "/", "r">>
    /\ configFile[2][2].model = JString("gpt-4")

\* C27 as the spec states it: when the write of the config file fails during
\* addRepo, removeRepo, updateModel, resetConfig or importConfig, the call
\* fails and the in-memory configuration is as it was before the call.
C27_FailedWriteLeavesMemory ==
    [][last'.op \in Mutators /\ failedWrites' # failedWrites =>
          /\ last'.result = "Failed to write config"
          /\ config' = config]_vars

(* Two processes: two commands run at the same time.  Each has loaded the  *)
(* config file at its start and holds its own document; the file is the    *)
(* only thing they share.  config is the document of the process that      *)
(* takes the next step, peer the document of the other one.                *)

InitTwo ==
    /\ \E file \in StartFiles :
        /\ config = LoadedConfig(file)
        /\ peer = LoadedConfig(file)
        /\ configFile = LoadedFile(file)
    /\ userFile = NoFile
    /\ storeFile = NoFile
    /\ dirs = <<>>
    /\ remote = [u \in RemoteUrls |-> [b \in Branches |-> 1]]
    /\ gitOps = <<>>
    /\ last = Call("start", "", "ok")
    /\ exported = NoExport
    /\ procs = [p \in Requests |-> Idle]
    /\ failedWrites = 0

\* the scheduler lets the other process run
OtherProcessRuns ==
    /\ config' = peer
    /\ peer' = config
    /\ last' = Call("other process runs", "", "ok")
    /\ gitOps' = <<>>
    /\ UNCHANGED <<configFile, userFile, storeFile, dirs, remote, exported, procs,
                   failedWrites>>

TwoRepos ==
    {[name |-> "c", url |-> "u1", branch |-> "main"],
     [name |-> "d", url |-> "u2", branch |-> "main"]}

TwoAddStep == \E repo \in TwoRepos, wr \in WriteOutcomes : AddRepo(repo, TRUE, wr)

TwoRemoveStep == \E name \in {"a", "c"}, wr \in WriteOutcomes : RemoveRepo(name, FALSE, TRUE, wr)

NextTwo ==
    \/ OtherProcessRuns
    \/ TwoAddStep
    \/ TwoRemoveStep
    \/ UpdateModelStep
    \/ ResetConfigStep

SpecTwo == InitTwo /\ [][NextTwo]_vars

\* the names of a registry
NameSet(repos) == {repos[i].name : i \in 1..Len(repos)}

\* C25: with two processes that have each loaded the config file, a
\* successful addRepo, removeRepo, updateModel or resetConfig of one of them
\* leaves in the file the whole document of that process and nothing of the
\* other's: the file is the collapsed in-memory document of the last writer,
\* whatever the file held and whatever the other process has in memory, and
\* a repo only the other process has registered is not in the file.
C25_LastWriterWins ==
    [][last'.op \in Mutators /\ last'.result = "ok" =>
          /\ configFile' = JsonFile(StringifyConfig(Collapsed(config')))
          /\ peer' = peer
          /\ \A name \in NameSet(peer.repos) \ NameSet(config'.repos) :
                name \notin NamesInFile(configFile')]_vars

\* both processes have added a repo with every write succeeding; the file
\* holds d, which the last writer added, and not c, which the other added
C25_Witness ==
    /\ last.op = "addRepo"
    /\ last.name = "d"
    /\ last.result = "ok"
    /\ failedWrites = 0
    /\ HasRepo(peer, "c")
    /\ ~HasRepo(config, "c")
    /\ ~HasRepo(peer, "d")
    /\ NamesInFile(configFile) = NameSet(config.repos)
    /\ "c" \notin NamesInFile(configFile)

----------------------------------------------------------------------------
(* addRepo calls in progress in one process.  addRepo looks the name up,   *)
(* awaits git ls-remote, then appends to the registry as it is by then and *)
(* awaits the write of the file; other calls run while it waits.           *)

\* the repos the concurrent addRepo calls are given
ConcurrentRepos ==
    {[name |-> "c", url |-> "u1", branch |-> "main"],
     [name |-> "c", url |-> "u2", branch |-> "main"],
     [name |-> "d", url |-> "u1", branch |-> "main"]}

Called(repo, pc, result) ==
    [pc |-> pc, call |-> "addRepo", repo |-> repo, result |-> result]

InitAdds ==
    /\ config = LoadedConfig(JsonFile(StringifyConfig(StartDoc)))
    /\ configFile = JsonFile(StringifyConfig(StartDoc))
    /\ userFile = NoFile
    /\ dirs = <<>>
    /\ remote = [u \in RemoteUrls |-> [b \in Branches |-> 1]]
    /\ peer = NoConfig
    /\ storeFile = NoFile
    /\ gitOps = <<>>
    /\ last = Call("start", "", "ok")
    /\ exported = NoExport
    /\ procs = [p \in Requests |-> Idle]
    /\ failedWrites = 0

\* addRepo(repo) up to `yield* validateRepo(repo.url)`
AddRepoBegins(p, repo) ==
    /\ procs[p].pc = "idle"
    /\ IF HasRepo(config, repo.name)
       THEN /\ procs' = [procs EXCEPT ![p] = Called(repo, "done", "already exists")]
            /\ last' = Call("addRepo", repo.name, "already exists")
            /\ gitOps' = <<>>
       ELSE /\ procs' = [procs EXCEPT ![p] = Called(repo, "validate", "")]
            /\ last' = Call("addRepo awaits ls-remote", repo.name, "ok")
            /\ gitOps' = <<[cmd |-> "ls-remote", url |-> repo.url]>>
    /\ UNCHANGED <<config, configFile, userFile, dirs, remote, peer, storeFile, exported,
                   failedWrites>>

\* git ls-remote exits: on 0 the repo is appended to config as it is now,
\* and the write of the file is awaited
AddRepoValidated(p, valid) ==
    /\ procs[p].pc = "validate"
    /\ gitOps' = <<>>
    /\ IF ~valid
       THEN /\ procs' = [procs EXCEPT ![p].pc = "done",
                                      ![p].result = "Failed to validate repo"]
            /\ last' = Call("addRepo", procs[p].repo.name, "Failed to validate repo")
            /\ UNCHANGED config
       ELSE /\ config' = [config EXCEPT !.repos = Append(@, procs[p].repo)]
            /\ procs' = [procs EXCEPT ![p] =
                            [pc |-> "write", call |-> "addRepo", repo |-> procs[p].repo,
                             result |-> "", doc |-> config']]
            /\ last' = Call("addRepo awaits write", procs[p].repo.name, "ok")
    /\ UNCHANGED <<configFile, userFile, dirs, remote, peer, storeFile, exported, failedWrites>>

\* the write of the document the call passed to writeConfig ends
AddRepoWritten(p, wr) ==
    /\ procs[p].pc = "write"
    /\ CanWrite(wr)
    /\ configFile' = writeConfig(procs[p].doc, wr)
    /\ failedWrites' = Counted(wr)
    /\ procs' = [procs EXCEPT ![p] =
                    Called(procs[p].repo, "done",
                           IF wr = "ok" THEN "ok" ELSE "Failed to write config")]
    /\ last' = Call("addRepo", procs[p].repo.name,
                    IF wr = "ok" THEN "ok" ELSE "Failed to write config")
    /\ gitOps' = <<>>
    /\ UNCHANGED <<config, userFile, dirs, remote, peer, storeFile, exported>>

AddRepoBeginsStep == \E p \in Requests, repo \in ConcurrentRepos : AddRepoBegins(p, repo)

AddRepoValidatedStep == \E p \in Requests, valid \in BOOLEAN : AddRepoValidated(p, valid)

AddRepoWrittenStep == \E p \in Requests, wr \in WriteOutcomes : AddRepoWritten(p, wr)

NextAdds ==
    \/ AddRepoBeginsStep
    \/ AddRepoValidatedStep
    \/ AddRepoWrittenStep

SpecAdds == InitAdds /\ [][NextAdds]_vars

AddDone(p) == procs[p].pc = "done"

\* C28 as the spec states it: with addRepo calls interleaved in one
\* process, the registry never holds two entries of one name, of two calls
\* given the same name at most one succeeds, and two calls given different
\* names that both succeed are both in the registry.
C28_InterleavedAddsKeepNamesUnique ==
    /\ UniqueNames(config.repos)
    /\ \A p, q \in Requests :
        p # q /\ AddDone(p) /\ AddDone(q)
            /\ procs[p].result = "ok" /\ procs[q].result = "ok" =>
                /\ procs[p].repo.name # procs[q].repo.name
                /\ HasRepo(config, procs[p].repo.name)
                /\ HasRepo(config, procs[q].repo.name)

----------------------------------------------------------------------------
(* The ahead/behind counts: getRepoStatus of git.ts reads the exit code    *)
(* and the standard output of git rev-list --left-right --count and turns  *)
(* them into the two counters.  The output is a string of characters.      *)

\* longest output of git rev-list that is parsed
MaxOutLen == 4

Whitespace == {" "}

Digits == {"0", "1"}

\* the characters of an output of git rev-list
OutChars == Digits \cup Whitespace \cup {"x"}

DigitValue(ch) == IF ch = "1" THEN 1 ELSE 0

RECURSIVE TrimStart(_)
TrimStart(s) ==
    IF s # <<>> /\ s[1] \in Whitespace THEN TrimStart(Tail(s)) ELSE s

RECURSIVE TrimEnd(_)
TrimEnd(s) ==
    IF s # <<>> /\ s[Len(s)] \in Whitespace
    THEN TrimEnd(SubSeq(s, 1, Len(s) - 1))
    ELSE s

\* String.prototype.trim
Trim(s) == TrimEnd(TrimStart(s))

RECURSIVE SplitFrom(_, _)
\* the pieces of s between runs of whitespace, cur being the piece read so far
SplitFrom(s, cur) ==
    IF s = <<>> THEN <<cur>>
    ELSE IF s[1] \in Whitespace
    THEN <<cur>> \o SplitFrom(TrimStart(s), <<>>)
    ELSE SplitFrom(Tail(s), Append(cur, s[1]))

\* String.prototype.split(/\s+/): the empty string gives one empty piece
SplitWhitespace(s) == SplitFrom(s, <<>>)

\* a JavaScript number: an integer or NaN
Num(n) == [isNaN |-> FALSE, value |-> n]

NaN == [isNaN |-> TRUE, value |-> 0]

RECURSIVE LeadingDigits(_)
LeadingDigits(s) ==
    IF s # <<>> /\ s[1] \in Digits THEN <<s[1]>> \o LeadingDigits(Tail(s)) ELSE <<>>

RECURSIVE DecimalValue(_)
DecimalValue(ds) ==
    IF ds = <<>> THEN 0
    ELSE 10 * DecimalValue(SubSeq(ds, 1, Len(ds) - 1)) + DigitValue(ds[Len(ds)])

\* parseInt(s, 10) of a string without sign: the number its leading digits
\* spell, NaN if it starts with no digit
parseInt(s) ==
    IF LeadingDigits(s) = <<>> THEN NaN ELSE Num(DecimalValue(LeadingDigits(s)))

\* let ahead = 0; let behind = 0; if (procRev.exitCode === 0) { ... } of
\* getRepoStatus
parseCounts(exitCode, revOutput) ==
    LET parts == SplitWhitespace(Trim(revOutput))
    IN IF exitCode = 0 /\ Len(parts) >= 2
       THEN [ahead |-> parseInt(parts[1]), behind |-> parseInt(parts[2])]
       ELSE [ahead |-> Num(0), behind |-> Num(0)]

RECURSIVE Outputs(_)
\* the outputs of at most n characters
Outputs(n) ==
    IF n = 0 THEN {<<>>}
    ELSE Outputs(n - 1)
         \cup {Append(s, ch) : s \in {t \in Outputs(n - 1) : Len(t) = n - 1},
                               ch \in OutChars}

ExitCodes == {0, 128}

\* git rev-list has exited in the clone of repo a
InitCounts ==
    /\ config = LoadedConfig(JsonFile(StringifyConfig(StartDoc)))
    /\ configFile = JsonFile(StringifyConfig(StartDoc))
    /\ userFile = NoFile
    /\ dirs = <<>>
    /\ remote = [u \in RemoteUrls |-> [b \in Branches |-> 1]]
    /\ peer = NoConfig
    /\ storeFile = NoFile
    /\ gitOps = <<>>
    /\ \E code \in ExitCodes, out \in Outputs(MaxOutLen) :
         last = [op |-> "rev-list", name |-> "a", result |-> "exited",
                 exitCode |-> code, revOutput |-> out]
    /\ exported = NoExport
    /\ procs = [p \in Requests |-> Idle]
    /\ failedWrites = 0

\* getRepoStatus of git.ts after both subprocesses have exited
ParseCountsStep ==
    /\ last.op = "rev-list"
    /\ LET counts == parseCounts(last.exitCode, last.revOutput)
       IN last' = [op |-> "getRepoStatus", name |-> "a", result |-> "ok",
                   exitCode |-> last.exitCode, revOutput |-> last.revOutput,
                   ahead |-> counts.ahead, behind |-> counts.behind]
    /\ UNCHANGED <<config, configFile, userFile, dirs, remote, peer, storeFile, gitOps, exported,
                   procs, failedWrites>>

NextCounts == ParseCountsStep

SpecCounts == InitCounts /\ [][NextCounts]_vars

\* the output is two integers separated by whitespace
TwoIntegers(s) ==
    LET parts == SplitWhitespace(Trim(s))
    IN /\ Len(parts) = 2
       /\ \A i \in 1..2 :
            parts[i] # <<>> /\ \A k \in 1..Len(parts[i]) : parts[i][k] \in Digits

\* C31 as the spec states it: when git rev-list exits non-zero or prints
\* something that is not two integers, getRepoStatus succeeds with ahead = 0
\* and behind = 0, and neither counter is NaN.
C31_GarbledCountsDefaultToZero ==
    last.op = "getRepoStatus" /\ (last.exitCode # 0 \/ ~TwoIntegers(last.revOutput)) =>
        /\ last.result = "ok"
        /\ last.ahead = Num(0)
        /\ last.behind = Num(0)

----------------------------------------------------------------------------
(* Waiting for git: calls of cloneOrUpdateOneRepoLocally and of the        *)
(* service's getRepoStatus in progress.  getRepoStatus awaits three        *)
(* subprocesses in turn: git fetch, git status and git rev-list; a call    *)
(* that awaits a subprocess goes on when the subprocess has exited.        *)

\* the subprocesses of a getRepoStatus on an existing clone, in order
StatusCommands == <<"fetch", "status", "rev-list">>

\* cloneOrUpdateOneRepoLocally(repoName) starts
EnsureLocalBegins(p, repoName) == Begin(p, "cloneOrUpdateOneRepoLocally", <<repoName>>)

\* getRepoStatus(repoName) starts
GetStatusBegins(p, repoName) ==
    /\ procs[p].pc = "idle"
    /\ procs' = [procs EXCEPT ![p] = [pc |-> "status", call |-> "getStatus",
                                      names |-> <<repoName>>, todo |-> StatusCommands,
                                      ops |-> <<>>, git |-> {}]]
    /\ last' = Call("getStatus", repoName, "begun")
    /\ gitOps' = <<>>
    /\ UNCHANGED <<config, configFile, userFile, exported, dirs, remote, peer, storeFile, failedWrites>>

\* getRepoStatus runs up to its next await of a git subprocess, or to its end
GetStatusRuns(p) ==
    /\ procs[p].pc = "status"
    /\ UNCHANGED <<config, configFile, userFile, exported, dirs, remote, peer, storeFile, failedWrites>>
    /\ LET repoName == procs[p].names[1]
           repoDir == RepoDir(config.reposDirectory, repoName)
           started == procs[p].ops # <<>>
       IN IF ~started /\ repoName = "local" THEN Finished(p, "ok")
          ELSE IF ~started /\ ~HasRepo(config, repoName) THEN Finished(p, "not found")
          ELSE IF ~started /\ ~directoryExists(dirs, repoDir) THEN Finished(p, "ok")
          ELSE IF procs[p].todo = <<>> THEN Finished(p, "ok")
          ELSE LET op == [cmd |-> Head(procs[p].todo), dir |-> repoDir]
               IN /\ procs' = [procs EXCEPT ![p].pc = "status git",
                                              ![p].git = {op},
                                              ![p].ops = Append(@, op)]
                  /\ last' = Call("getStatus", repoName, "spawned")
                  /\ gitOps' = <<op>>

\* the git subprocess of a getRepoStatus exits: a fetch that exits non-zero
\* fails the call, the exit codes of git status and git rev-list do not
GetStatusGitExits(p, net) ==
    /\ procs[p].pc = "status git"
    /\ UNCHANGED <<config, configFile, userFile, exported, remote, peer, storeFile, failedWrites>>
    /\ LET op == CHOOSE o \in procs[p].git : TRUE
       IN IF op.cmd = "fetch" /\ ~FetchSucceeds(dirs, op.dir, net)
          THEN /\ Finished(p, "Failed to fetch repo")
               /\ UNCHANGED dirs
          ELSE /\ dirs' = IF op.cmd = "fetch"
                          THEN Put(dirs, op.dir, FetchedEntry(dirs[op.dir]))
                          ELSE dirs
               /\ procs' = [procs EXCEPT ![p].pc = "status", ![p].git = {},
                                         ![p].todo = Tail(@)]
               /\ last' = Call("getStatus", procs[p].names[1], "git exited")
               /\ gitOps' = <<>>

\* the directory of repo a at the start: absent or a clone
WaitDirs ==
    {<<>>, [p \in {RepoDir(Home \o <<"/", "r">>, "a")} |-> ClonedEntry("u1", "main")]}

InitWaits ==
    /\ config = LoadedConfig(JsonFile(StringifyConfig(StartDoc)))
    /\ configFile = JsonFile(StringifyConfig(StartDoc))
    /\ userFile = NoFile
    /\ remote = [u \in RemoteUrls |-> [b \in Branches |-> 1]]
    /\ dirs \in WaitDirs
    /\ peer = NoConfig
    /\ storeFile = NoFile
    /\ gitOps = <<>>
    /\ last = Call("start", "", "ok")
    /\ exported = NoExport
    /\ procs = [p \in Requests |-> Idle]
    /\ failedWrites = 0

EnsureLocalBeginsStep == \E p \in Requests : EnsureLocalBegins(p, "a")

GetStatusBeginsStep == \E p \in Requests, name \in {"a", "zz"} : GetStatusBegins(p, name)

GetStatusRunsStep == \E p \in Requests : GetStatusRuns(p)

GetStatusGitExitsStep == \E p \in Requests, net \in BOOLEAN : GetStatusGitExits(p, net)

NextWaits ==
    \/ EnsureLocalBeginsStep
    \/ GetStatusBeginsStep
    \/ RunToSpawnStep
    \/ GitExitsStep
    \/ GetStatusRunsStep
    \/ GetStatusGitExitsStep

\* the runtime runs a call that can run, and every git subprocess exits
WaitsFairness ==
    \A p \in Requests :
        /\ WF_vars(RunToSpawn(p))
        /\ WF_vars(GetStatusRuns(p))
        /\ WF_vars(\E net \in BOOLEAN : GitExits(p, net))
        /\ WF_vars(\E net \in BOOLEAN : GetStatusGitExits(p, net))

SpecWaits == InitWaits /\ [][NextWaits]_vars /\ WaitsFairness

\* the call awaits a git subprocess
Awaits(p) == procs[p].pc \in {"git", "status git"}

\* C32: when every git subprocess that is started exits, a call of
\* cloneOrUpdateOneRepoLocally or of getRepoStatus in progress returns or
\* fails in the end; and a call that awaits a git subprocess goes on only
\* by the exit of that subprocess: nothing else, such as a timeout, ends
\* the wait.
C32_ReturnsWhenGitExits ==
    /\ \A p \in Requests : (procs[p].pc # "idle") ~> (procs[p].pc = "idle")
    /\ [][\A p \in Requests :
            Awaits(p) /\ procs'[p] # procs[p] =>
                \E net \in BOOLEAN : GitExits(p, net) \/ GetStatusGitExits(p, net)]_vars

\* a getRepoStatus has returned after its three subprocesses while a clone
\* of another call runs
C32_Witness ==
    /\ last.op = "getStatus"
    /\ "todo" \in DOMAIN last
    /\ last.result = "ok"
    /\ Len(gitOps) = 3
    /\ \E p \in Requests : procs[p].pc = "git" /\ procs[p].call = "cloneOrUpdateOneRepoLocally"

----------------------------------------------------------------------------
\* the positions of a registry whose entry is not named name
KeptPositions(repos, name) == {i \in 1..Len(repos) : repos[i].name # name}

\* the place of position i among the kept positions
Rank(kept, i) == Cardinality({j \in kept : j <= i})

\* C33: after a successful addRepo the registry is the one before with the
\* new repo as its last entry; after a successful removeRepo it is the one
\* before without the entries of the given name, every other entry as it
\* was and the others in the order they had.
C33_RegistryKeepsInsertionOrder ==
    [][last'.result = "ok" =>
        /\ last'.op = "addRepo" =>
            /\ Len(config'.repos) = Len(config.repos) + 1
            /\ SubSeq(config'.repos, 1, Len(config.repos)) = config.repos
            /\ config'.repos[Len(config'.repos)].name = last'.name
        /\ last'.op = "removeRepo" =>
            LET kept == KeptPositions(config.repos, last'.name)
            IN /\ Len(config'.repos) = Cardinality(kept)
               /\ \A i \in kept : config'.repos[Rank(kept, i)] = config.repos[i]
               /\ ~HasRepo(config', last'.name)]_vars

\* an entry between two others was removed and the two are left in their order
C33_Witness ==
    /\ last.op = "removeRepo"
    /\ last.result = "ok"
    /\ last.name = "c"
    /\ Len(config.repos) = 2
    /\ config.repos[1].name = "a"
    /\ config.repos[2].name = "d"
    /\ ENABLED (/\ AddRepo([name |-> "c", url |-> "u1", branch |-> "main"], TRUE, "ok")
                /\ config'.repos[3].name = "c")

----------------------------------------------------------------------------
(* Registry and clones: one process that clones repo a and then changes    *)
(* its registry by every registry operation.                               *)

FrameAddStep ==
    \E valid \in BOOLEAN :
        AddRepo([name |-> "c", url |-> "u1", branch |-> "main"], valid, "ok")

FrameRemoveStep ==
    \E name \in {"a", "c"}, deleteFiles \in BOOLEAN, rm \in BOOLEAN :
        RemoveRepo(name, deleteFiles, rm, "ok")

FrameEnsureLocalStep == EnsureLocal("a", TRUE)

FrameUpdateModelStep == UpdateModel("p2", "m2", "ok")

FrameResetStep == ResetConfig("ok")

FrameImportStep == ImportConfig("ok")

FrameExportStep == ExportConfig("ok")

FrameUserWritesStep == UserWritesFile(JsonFile(StringifyConfig(RelativeDoc)))

NextFrames ==
    \/ FrameEnsureLocalStep
    \/ FrameAddStep
    \/ FrameRemoveStep
    \/ FrameUpdateModelStep
    \/ FrameResetStep
    \/ FrameImportStep
    \/ FrameExportStep
    \/ FrameUserWritesStep

SpecFrames == InitClone /\ [][NextFrames]_vars

\* the operations on the registry other than removeRepo
RegistryOps == {"addRepo", "updateModel", "resetConfig", "importConfig", "exportConfig"}

\* C34: addRepo, updateModel, resetConfig, importConfig, exportConfig and a
\* removeRepo without deleteFiles leave the file system below the repos
\* directories as it was; a removeRepo with
\* deleteFiles takes away nothing but the directory of the named repo and
\* what is in it, and adds nothing.
C34_RegistryOpsLeaveClones ==
    [][/\ last'.op \in RegistryOps => dirs' = dirs
       /\ last'.op = "removeRepo" =>
            /\ \A rm \in BOOLEAN : RemoveRepo(last'.name, FALSE, rm, "ok") => dirs' = dirs
            /\ \A d \in DOMAIN dirs' : d \in DOMAIN dirs /\ dirs'[d] = dirs[d]
            /\ \A d \in DOMAIN dirs \ DOMAIN dirs' :
                 StartsWith(d, RepoDir(config.reposDirectory, last'.name))]_vars

\* the clone of repo a is on disk after a reset that took its entry away
C34_Witness ==
    /\ last.op = "resetConfig"
    /\ last.result = "ok"
    /\ ~HasRepo(config, "a")
    /\ IsClone(dirs, RepoDir(Home \o <<"/", "r">>, "a"))

----------------------------------------------------------------------------
(* JSON stores: history.json and bookmarks.json in ~/.config/btca.  A      *)
(* store is loaded from its file by every call and saved to it whole.      *)
(* loadHistory and saveHistory of history.ts are modelled; load and save   *)
(* of JsonStore do the same steps with the schema they are given.          *)

\* the directory ~/.config/btca does not exist
NoDir == <<"nodir">>

\* a file that holds text: a string of characters
TextFile(s) == <<"text", s>>

\* fs.exists(historyPath)
StoreFileExists(file) == file \notin {NoDir, NoFile}

\* the file as fs.exists and fs.readFileString see it
FileOf(file) == IF file = NoDir THEN NoFile ELSE file

DEFAULT_HISTORY == [entries |-> <<>>]

\* JSON.stringify of a history entry
StringifyEntry(e) ==
    JObject([id        |-> JString(e.id),
             timestamp |-> JNumber(e.timestamp),
             tech      |-> JString(e.tech),
             question  |-> JString(e.question),
             answer    |-> JString(e.answer)])

RECURSIVE StringifyEntries(_)
StringifyEntries(entries) ==
    IF entries = <<>> THEN <<>>
    ELSE <<StringifyEntry(Head(entries))>> \o StringifyEntries(Tail(entries))

\* JSON.stringify(history, null, 2)
StringifyHistory(h) == JObject([entries |-> JArray(StringifyEntries(h.entries))])

\* Schema.decodeUnknown(historyEntrySchema) succeeds
EntryDecodes(j) ==
    /\ IsType(j, "object")
    /\ \A k \in {"id", "tech", "question", "answer"} :
            k \in DOMAIN j[2] /\ IsType(j[2][k], "string")
    /\ "timestamp" \in DOMAIN j[2] /\ IsType(j[2].timestamp, "number")

\* Schema.decodeUnknown(historySchema) succeeds
HistoryDecodes(j) ==
    /\ IsType(j, "object")
    /\ "entries" \in DOMAIN j[2] /\ IsType(j[2].entries, "array")
    /\ \A i \in 1..Len(j[2].entries[2]) : EntryDecodes(j[2].entries[2][i])

DecodeEntry(j) ==
    [k \in {"id", "timestamp", "tech", "question", "answer"} |-> j[2][k][2]]

RECURSIVE DecodeEntries(_)
DecodeEntries(js) ==
    IF js = <<>> THEN <<>>
    ELSE <<DecodeEntry(Head(js))>> \o DecodeEntries(Tail(js))

DecodeHistory(j) == [entries |-> DecodeEntries(j[2].entries[2])]

\* what a call that fails returns
Failed(message) == [result |-> message, data |-> <<>>]

Loaded(data) == [result |-> "ok", data |-> data]

\* loadHistory that fails on a file it cannot parse
loadHistoryStrict(file, mk, rd) ==
    IF file = NoDir /\ mk # "ok" THEN Failed("Failed to create directory")
    ELSE IF ~StoreFileExists(file) THEN Loaded(DEFAULT_HISTORY)
    ELSE IF rd # "ok" THEN Failed("Failed to read history file")
    ELSE IF file[1] = "text" /\ Trim(file[2]) = <<>> THEN Loaded(DEFAULT_HISTORY)
    ELSE IF file[1] # "json" THEN Failed("Failed to parse history file")
    ELSE IF ~HistoryDecodes(file[2]) THEN Loaded(DEFAULT_HISTORY)
    ELSE Loaded(DecodeHistory(file[2]))

\* loadHistory on the file: mk says whether ensureDirectory can create the
\* directory, rd whether fs.readFileString can read the file
loadHistory(file, mk, rd) ==
    IF file = NoDir /\ mk # "ok" THEN Failed("Failed to create directory")
    ELSE IF ~StoreFileExists(file) THEN Loaded(DEFAULT_HISTORY)
    ELSE IF rd # "ok" THEN Failed("Failed to read history file")
    ELSE IF file[1] = "text" /\ Trim(file[2]) = <<>> THEN Loaded(DEFAULT_HISTORY)
    ELSE IF file[1] # "json" THEN Loaded(DEFAULT_HISTORY)
    ELSE IF ~HistoryDecodes(file[2]) THEN Loaded(DEFAULT_HISTORY)
    ELSE Loaded(DecodeHistory(file[2]))

\* the file after loadHistory: ensureDirectory has made the directory
AfterLoad(file, mk) == IF file = NoDir /\ mk = "ok" THEN NoFile ELSE file

\* the file after saveHistory(history): fs.writeFileString fails without the
\* directory
saveHistory(file, history, wr) ==
    IF file = NoDir \/ wr # "ok" THEN file ELSE JsonFile(StringifyHistory(history))

IoOutcomes == {"ok", "fails"}

\* loadHistory is run
LoadHistory(mk, rd) ==
    /\ storeFile' = AfterLoad(storeFile, mk)
    /\ LET r == loadHistory(storeFile, mk, rd)
       IN last' = [op |-> "loadHistory", name |-> "", result |-> r.result, ret |-> r.data,
                   file |-> storeFile, mk |-> mk, rd |-> rd]
    /\ gitOps' = <<>>
    /\ UNCHANGED <<config, configFile, userFile, dirs, remote, peer, exported, procs,
                   failedWrites>>

\* saveHistory(history) is run
SaveHistory(history, wr) ==
    /\ CanWrite(wr)
    /\ storeFile' = saveHistory(storeFile, history, wr)
    /\ failedWrites' = Counted(wr)
    /\ last' = [op |-> "saveHistory", name |-> "",
                result |-> IF storeFile = NoDir \/ wr # "ok"
                           THEN "Failed to write history file" ELSE "ok",
                data |-> history]
    /\ gitOps' = <<>>
    /\ UNCHANGED <<config, configFile, userFile, dirs, remote, peer, exported, procs>>

\* the user or another program writes the file of the store
UserEditsStoreFile(content) ==
    /\ storeFile' = content
    /\ last' = Call("user edits store file", "", "ok")
    /\ gitOps' = <<>>
    /\ UNCHANGED <<config, configFile, userFile, dirs, remote, peer, exported, procs,
                   failedWrites>>

\* an entry as addEntry makes it: n-th id and time
Entry(n, tech) ==
    [id |-> n, timestamp |-> n, tech |-> tech, question |-> "q", answer |-> "a"]

\* histories that are saved
SavedHistories ==
    {DEFAULT_HISTORY,
     [entries |-> <<Entry(1, "svelte")>>],
     [entries |-> <<Entry(2, "react"), Entry(1, "svelte")>>]}

\* a document whose entry has no answer and a number for its id
BadEntryDoc ==
    JObject([entries |-> JArray(<<JObject([id |-> JNumber(1), timestamp |-> JNumber(1),
                                       tech |-> JString("svelte"),
                                       question |-> JString("q")])>>)])

\* contents the file of the store is given from outside
StoreContents ==
    {NoDir, NoFile, TextFile(<<>>), TextFile(<<" ", " ">>), NotJson,
     JsonFile(JArray(<<>>)), JsonFile(BadEntryDoc),
     JsonFile(StringifyHistory([entries |-> <<Entry(1, "svelte")>>]))}

InitStore ==
    /\ config = LoadedConfig(JsonFile(StringifyConfig(StartDoc)))
    /\ configFile = JsonFile(StringifyConfig(StartDoc))
    /\ userFile = NoFile
    /\ dirs = <<>>
    /\ remote = [u \in RemoteUrls |-> [b \in Branches |-> 1]]
    /\ peer = NoConfig
    /\ storeFile \in StoreContents
    /\ gitOps = <<>>
    /\ last = Call("start", "", "ok")
    /\ exported = NoExport
    /\ procs = [p \in Requests |-> Idle]
    /\ failedWrites = 0

LoadHistoryStep == \E mk \in IoOutcomes, rd \in IoOutcomes : LoadHistory(mk, rd)

SaveHistoryStep == \E h \in SavedHistories, wr \in WriteOutcomes : SaveHistory(h, wr)

UserEditsStoreFileStep == \E content \in StoreContents : UserEditsStoreFile(content)

NextStore ==
    \/ LoadHistoryStep
    \/ SaveHistoryStep
    \/ UserEditsStoreFileStep

SpecStore == InitStore /\ [][NextStore]_vars

\* the file could be read and holds nothing that can be loaded: it is empty,
\* white space, not JSON, or JSON that the schema rejects
Unloadable(file) ==
    \/ file[1] = "text" /\ Trim(file[2]) = <<>>
    \/ file = NotJson
    \/ file[1] = "json" /\ ~HistoryDecodes(file[2])

----------------------------------------------------------------------------
(* The history service: addEntry, getEntries and clearHistory, each a load *)
(* of history.json followed, for addEntry and clearHistory, by a save.     *)

\* .slice(0, 100) of addEntry
HistoryLimit == 100

\* addEntry is tried until this many entries have been made
MaxAdds == 102

\* Array.prototype.slice(0, end) for end >= 0
ArraySlice(s, end) == SubSeq(s, 1, IF end < Len(s) THEN end ELSE Len(s))

\* crypto.randomUUID() and Date.now(): an id no entry has and a time after
\* every entry's
Fresh(entries) == IF entries = <<>> THEN 1 ELSE entries[1].id + 1

\* addEntry that puts the new entry last and cuts nothing
updatedEntriesAppended(newEntry, entries) == Append(entries, newEntry)

\* [newEntry, ...history.entries].slice(0, 100)
updatedEntries(newEntry, entries) == ArraySlice(<<newEntry>> \o entries, HistoryLimit)

\* addEntry({tech, question, answer})
AddEntry(tech, mk, rd, wr) ==
    /\ CanWrite(wr)
    /\ gitOps' = <<>>
    /\ UNCHANGED <<config, configFile, userFile, dirs, remote, peer, exported, procs>>
    /\ LET r == loadHistory(storeFile, mk, rd)
           file == AfterLoad(storeFile, mk)
       IN IF r.result # "ok"
          THEN /\ storeFile' = file
               /\ last' = [op |-> "addEntry", name |-> tech, result |-> r.result,
                           before |-> <<>>, ret |-> <<>>]
               /\ UNCHANGED failedWrites
          ELSE LET newEntry == Entry(Fresh(r.data.entries), tech)
               IN /\ Fresh(r.data.entries) <= MaxAdds
                  /\ storeFile' = saveHistory(file,
                                      [entries |-> updatedEntries(newEntry, r.data.entries)],
                                      wr)
                  /\ failedWrites' = Counted(wr)
                  /\ last' = [op |-> "addEntry", name |-> tech,
                              result |-> IF wr = "ok" THEN "ok"
                                         ELSE "Failed to write history file",
                              before |-> r.data.entries, ret |-> newEntry]

\* getEntries(limit)
GetEntries(limit, mk, rd) ==
    /\ storeFile' = AfterLoad(storeFile, mk)
    /\ LET r == loadHistory(storeFile, mk, rd)
       IN last' = [op |-> "getEntries", name |-> "", result |-> r.result, limit |-> limit,
                   ret |-> IF r.result = "ok" THEN ArraySlice(r.data.entries, limit)
                           ELSE <<>>]
    /\ gitOps' = <<>>
    /\ UNCHANGED <<config, configFile, userFile, dirs, remote, peer, exported, procs,
                   failedWrites>>

\* clearHistory()
ClearHistory(wr) ==
    /\ CanWrite(wr)
    /\ storeFile' = saveHistory(storeFile, DEFAULT_HISTORY, wr)
    /\ failedWrites' = Counted(wr)
    /\ last' = [op |-> "clearHistory", name |-> "",
                result |-> IF storeFile = NoDir \/ wr # "ok"
                           THEN "Failed to write history file" ELSE "ok"]
    /\ gitOps' = <<>>
    /\ UNCHANGED <<config, configFile, userFile, dirs, remote, peer, exported, procs>>

\* the limits getEntries is given; the commands give 10
Limits == {0, 1, 10}

InitHistory == InitStore /\ storeFile \in {NoDir, NoFile}

AddEntryStep ==
    \E mk \in IoOutcomes, rd \in IoOutcomes, wr \in WriteOutcomes :
        AddEntry("svelte", mk, rd, wr)

GetEntriesStep ==
    \E limit \in Limits, mk \in IoOutcomes, rd \in IoOutcomes : GetEntries(limit, mk, rd)

ClearHistoryStep == \E wr \in WriteOutcomes : ClearHistory(wr)

NextHistory ==
    \/ AddEntryStep
    \/ GetEntriesStep
    \/ ClearHistoryStep

SpecHistory == InitHistory /\ [][NextHistory]_vars

\* the entries the history file holds
Stored == IF StoreFileExists(storeFile) THEN DecodeHistory(storeFile[2]).entries ELSE <<>>

\* every entry was made after the entries behind it
NewestFirst(entries) ==
    \A i \in 1..(Len(entries) - 1) : entries[i].timestamp > entries[i + 1].timestamp

\* C36: the history file holds at most 100 entries, newest first.  After a
\* successful addEntry the new entry is the first and behind it are the
\* entries held before, in their order, without the last of them if they
\* were 100.  getEntries(limit) returns the first limit entries, all of
\* them if there are fewer, and, after a successful clearHistory, none.
C36_HistoryNewestFirstAtMostHundred ==
    /\ [](Len(Stored) <= 100 /\ NewestFirst(Stored))
    /\ [](last.op = "addEntry" /\ last.result = "ok" =>
            /\ Stored[1] = last.ret
            /\ Tail(Stored) = IF Len(last.before) = 100
                              THEN SubSeq(last.before, 1, 99)
                              ELSE last.before)
    /\ [](last.op = "getEntries" /\ last.result = "ok" =>
            /\ Len(last.ret) = IF last.limit < Len(Stored) THEN last.limit ELSE Len(Stored)
            /\ \A i \in 1..Len(last.ret) : last.ret[i] = Stored[i])
    /\ [][last.op = "clearHistory" /\ last.result = "ok"
          /\ last'.op = "getEntries" /\ last'.result = "ok" => last'.ret = <<>>]_vars

\* the 101st entry was added to a history of 100 and the first one is gone
C36_Witness ==
    /\ last.op = "addEntry"
    /\ last.result = "ok"
    /\ Len(last.before) = 100
    /\ last.ret.id = 101
    /\ Len(Stored) = 100
    /\ Stored[100].id = 2

----------------------------------------------------------------------------
(* The agent instance: getOpencodeInstance of the agent service starts an  *)
(* OpenCode server on the first port that is free.                         *)

\* const maxInstances = 5 of getOpencodeInstance
maxInstances == 5

\* the port of its first attempt: 3420 + portOffset
BasePort == 3420

\* what createOpencode does on a port: it starts the server, it throws an
\* error whose stack names the port, or it throws another error
CreateOutcomes == {"started", "port in use", "other error"}

RECURSIVE TryPorts(_, _, _)
\* the while loop from portOffset on; outcome[i] is what the i-th call of
\* createOpencode does, attempts are the ports tried so far
TryPorts(portOffset, outcome, attempts) ==
    IF portOffset >= maxInstances
    THEN [result |-> "FAILED TO CREATE OPENCODE CLIENT - all ports exhausted",
          attempts |-> attempts]
    ELSE LET port == BasePort + portOffset
             tried == Append(attempts, port)
         IN IF outcome[Len(tried)] = "started"
            THEN [result |-> "ok", attempts |-> tried]
            ELSE IF outcome[Len(tried)] = "port in use"
            THEN TryPorts(portOffset + 1, outcome, tried)
            ELSE [result |-> "FAILED TO CREATE OPENCODE CLIENT", attempts |-> tried]

\* getOpencodeInstance({tech})
getOpencodeInstance(outcome) == TryPorts(0, outcome, <<>>)

\* the service runs with the default configuration or with one that names
\* another port and another number of instances
InitInstance ==
    /\ \E doc \in {DEFAULT_CONFIG, StartDoc} :
        /\ config = LoadedConfig(JsonFile(StringifyConfig(doc)))
        /\ configFile = JsonFile(StringifyConfig(doc))
    /\ userFile = NoFile
    /\ dirs = <<>>
    /\ remote = [u \in RemoteUrls |-> [b \in Branches |-> 1]]
    /\ peer = NoConfig
    /\ storeFile = NoFile
    /\ gitOps = <<>>
    /\ last = Call("start", "", "ok")
    /\ exported = NoExport
    /\ procs = [p \in Requests |-> Idle]
    /\ failedWrites = 0

GetOpencodeInstance(outcome) ==
    /\ LET r == getOpencodeInstance(outcome)
       IN last' = [op |-> "getOpencodeInstance", name |-> "", result |-> r.result,
                   attempts |-> r.attempts, outcome |-> outcome]
    /\ gitOps' = <<>>
    /\ UNCHANGED <<config, configFile, userFile, dirs, remote, peer, storeFile, exported,
                   procs, failedWrites>>

GetOpencodeInstanceStep ==
    \E outcome \in [1..maxInstances -> CreateOutcomes] : GetOpencodeInstance(outcome)

NextInstance == GetOpencodeInstanceStep

SpecInstance == InitInstance /\ [][NextInstance]_vars

\* C37 as the spec states it: the attempts are made on the ports
\* config.port, config.port + 1, ... in this order; each attempt but the
\* last met a port in use; the call succeeds when the last attempt started
\* the server, fails at once on another error, and fails with "all ports
\* exhausted" after config.maxInstances attempts that met a port in use;
\* there are at most config.maxInstances attempts.
C37_PortsFromConfiguration ==
    last.op = "getOpencodeInstance" =>
        LET n == Len(last.attempts)
        IN /\ n >= 1 /\ n <= config.maxInstances
           /\ \A i \in 1..n : last.attempts[i] = config.port + (i - 1)
           /\ \A i \in 1..(n - 1) : last.outcome[i] = "port in use"
           /\ last.result = "ok" <=> last.outcome[n] = "started"
           /\ last.outcome[n] = "other error" =>
                last.result = "FAILED TO CREATE OPENCODE CLIENT"
           /\ last.outcome[n] = "port in use" =>
                /\ n = config.maxInstances
                /\ last.result = "FAILED TO CREATE OPENCODE CLIENT - all ports exhausted"

\* ---------------------------------------------------------------------------
\* The commands of the CLI
\* Each run of btca is one process: the config service starts, the command
\* calls one operation of it, and the process exits.
\* ---------------------------------------------------------------------------

\* config repos list: const repos = yield* config.getRepos()
GetRepos ==
    /\ last' = Call("getRepos", "", "ok")
    /\ gitOps' = <<>>
    /\ UNCHANGED <<config, configFile, userFile, exported, procs, dirs, remote, peer,
                   storeFile, failedWrites>>

\* the command that calls each operation of the config service
CommandOf == [o \in {"getRepos", "addRepo", "removeRepo", "getStatus", "cleanRepo",
                     "cleanAllRepos", "updateAllRepos", "exportConfig", "importConfig",
                     "resetConfig"} |->
    CASE o = "getRepos"       -> "config repos list"
      [] o = "addRepo"        -> "config repos add"
      [] o = "removeRepo"     -> "config repos remove"
      [] o = "getStatus"      -> "status"
      [] o = "cleanRepo"      -> "clean"
      [] o = "cleanAllRepos"  -> "clean"
      [] o = "updateAllRepos" -> "update"
      [] o = "exportConfig"   -> "config export"
      [] o = "importConfig"   -> "config import"
      [] o = "resetConfig"    -> "config reset"]

\* the commands whose effect is piped through Effect.catchTag('ConfigError', ...)
CatchesConfigError == {"config repos add", "config repos remove", "config export",
                       "config import", "clean", "status"}

\* console.error(`Error: ${e.message}`)
ErrorLine(message) == [prefix |-> "Error: ", message |-> message]

\* runMain's teardown: Exit.isFailure(exit) && !Cause.isInterruptedOnly(exit.cause) ? 1 : 0
\* (no command is interrupted here)
teardown(failed) == IF failed THEN 1 ELSE 0

\* how a command ends, given the result of its operation: the exit code of the
\* process and the lines the command wrote with console.error
commandEnds(command, result) ==
    IF result = "ok"
    THEN [exitCode |-> teardown(FALSE), stderr |-> <<>>]
    ELSE IF command \in CatchesConfigError
    THEN [exitCode |-> 1, stderr |-> <<ErrorLine(result)>>]
    ELSE [exitCode |-> teardown(TRUE), stderr |-> <<>>]

\* the process has started and its command has not called its operation yet
CommandStarts == last.op = "start" /\ last.result = "ok"

\* the operation of the command has returned
OperationReturned ==
    /\ last.op \in DOMAIN CommandOf
    /\ last.op = "updateAllRepos" => Returned

\* the process exits
CommandExits ==
    /\ OperationReturned
    /\ LET end == commandEnds(CommandOf[last.op], last.result)
       IN last' = [op |-> "exit", name |-> CommandOf[last.op], result |-> last.result,
                   exitCode |-> end.exitCode, stderr |-> end.stderr]
    /\ gitOps' = <<>>
    /\ UNCHANGED <<config, configFile, userFile, exported, procs, dirs, remote, peer,
                   storeFile, failedWrites>>

InitCli == InitClone

CliListStep == CommandStarts /\ GetRepos

CliAddStep ==
    CommandStarts /\ \E valid \in BOOLEAN, wr \in WriteOutcomes :
        AddRepo([name |-> "c", url |-> "u1", branch |-> "main"], valid, wr)

CliRemoveStep ==
    CommandStarts /\ \E name \in {"a", "zz"}, rm \in BOOLEAN, wr \in WriteOutcomes :
        RemoveRepo(name, TRUE, rm, wr)

CliStatusStep ==
    CommandStarts /\ \E name \in {"a", "zz"}, net \in BOOLEAN : GetStatus(name, net)

CliCleanStep ==
    CommandStarts /\ \E name \in {"a", "zz"}, rm \in BOOLEAN : CleanRepo(name, rm)

CliCleanAllStep ==
    CommandStarts /\ \E failAt \in 0..Len(config.repos) : CleanAllRepos(failAt)

CliUpdateStep == CommandStarts /\ UpdateAllRepos(1)

CliUpdateRunsStep == RunToSpawn(1)

CliGitExitsStep == \E net \in BOOLEAN : GitExits(1, net)

CliExportStep == CommandStarts /\ \E wr \in WriteOutcomes : ExportConfig(wr)

CliImportStep == CommandStarts /\ \E wr \in WriteOutcomes : ImportConfig(wr)

CliResetStep == CommandStarts /\ \E wr \in WriteOutcomes : ResetConfig(wr)

CommandExitsStep == CommandExits

\* the next run of btca
CliNextRunStep == last.op = "exit" /\ Restart("ok")

NextCli ==
    \/ CliListStep
    \/ CliAddStep
    \/ CliRemoveStep
    \/ CliStatusStep
    \/ CliCleanStep
    \/ CliCleanAllStep
    \/ CliUpdateStep
    \/ CliUpdateRunsStep
    \/ CliGitExitsStep
    \/ CliExportStep
    \/ CliImportStep
    \/ CliResetStep
    \/ CommandExitsStep
    \/ CliNextRunStep

SpecCli == InitCli /\ [][NextCli]_vars

\* C38: a core command whose operation succeeds exits with code 0; one whose
\* operation fails with a domain error writes the line 'Error: <message>' to
\* standard error and exits with code 1; none exits with 0 after a failure.
C38_FailurePrintsErrorAndExitsOne ==
    last.op = "exit" =>
        IF last.result = "ok"
        THEN last.exitCode = 0
        ELSE last.exitCode = 1 /\ last.stderr = <<ErrorLine(last.result)>>

\* the exit code alone: 0 exactly when the operation succeeded
ExitCodeTellsFailure ==
    last.op = "exit" => (last.exitCode = 0 <=> last.result = "ok")

====
